---- MODULE Spec2Model ----
(***************************************************************************)
(* Model of the django_iseries backend (src/src/django_iseries): the       *)
(* cursor wrapper DB2CursorWrapper (placeholder translation, error         *)
(* remapping, close), and the connection side of DatabaseWrapper.          *)
(*                                                                         *)
(* A text (query, message) is a sequence of symbols; a symbol is a piece   *)
(* of text that none of the code's tests looks into ("%", "s", "?", a      *)
(* word, a blank).  A Python value is a record [cls, text] (its class and  *)
(* its str()), an exception a record [cls, args].                          *)
(***************************************************************************)
EXTENDS Integers, Sequences, FiniteSets, TLC

VARIABLES
    call,       \* the call being made: [op |-> ..., <arguments>]
    result,     \* its outcome: [kind |-> "none" | "return" | "raise", ...]
    cursor,     \* the driver (pyodbc) cursor held by DB2CursorWrapper.cursor
    driver,     \* what the driver's next execute / executemany will do
    settings_dict,  \* DatabaseWrapper.settings_dict
    connection,     \* DatabaseWrapper.connection
    odbc,       \* the platform and what Database.connect will do
    catalog,    \* the database: its catalog views and the rows of its tables
    handle      \* the driver connection DatabaseWrapper.connection refers to

vars == <<call, result, cursor, driver, settings_dict, connection, odbc, catalog, handle>>

----------------------------------------------------------------------------
(* Bounds of the model *)

MaxTokens == 5      \* symbols in a query handed to the placeholder rewrite
MaxParams == 3      \* parameters handed to the placeholder rewrite
MaxChars == 5       \* symbols in a query handed to convert_query
MaxExecParams == 2  \* parameters handed to execute, and per row to executemany
MaxCloses == 3      \* driver close() invocations counted

----------------------------------------------------------------------------
(* Generic helpers *)

SeqsUpTo(S, n) == UNION {[1..k -> S] : k \in 0..n}

RemoveAt(s, i) == [j \in 1..(Len(s) - 1) |-> IF j < i THEN s[j] ELSE s[j + 1]]

NoResult == [kind |-> "none"]

NoCursor == [connection |-> FALSE, closes |-> 0]

NoOutcome == [kind |-> "none"]

NoSettings == <<>>

NoOdbc == [platform |-> "none", connect |-> NoOutcome]

NoCatalog == [kind |-> "none"]

NoHandle == [open |-> FALSE, closes |-> 0, failed |-> 0, last |-> NoOutcome]

----------------------------------------------------------------------------
(* Python values: cls is the value's class, text is str(value).            *)

\* bases of the classes the code tests with isinstance (reflexive)
Mro(cls) ==
    CASE cls = "bool" -> {"bool", "int"}
      [] cls = "datetime" -> {"datetime", "date"}
      [] cls = "BigAutoField" -> {"BigAutoField", "AutoField"}
      [] OTHER -> {cls}

isinstance(value, classes) == Mro(value.cls) \cap classes # {}

Values ==
    { [cls |-> "str", text |-> "a"], [cls |-> "str", text |-> "True"],
      [cls |-> "str", text |-> "42"], [cls |-> "str", text |-> ""],
      [cls |-> "int", text |-> "42"], [cls |-> "int", text |-> "0"],
      [cls |-> "int", text |-> "1"], [cls |-> "float", text |-> "1.754"],
      [cls |-> "bool", text |-> "True"], [cls |-> "bool", text |-> "False"],
      [cls |-> "date", text |-> "2020-01-02"],
      [cls |-> "time", text |-> "03:04:05"],
      [cls |-> "datetime", text |-> "2020-01-02 03:04:05"],
      [cls |-> "Decimal", text |-> "1.50"] }

\* bool(value) for the values above
Truth(value) ==
    CASE value.cls = "bool" -> value.text = "True"
      [] value.cls = "int" -> value.text # "0"
      [] value.cls = "str" -> value.text # ""
      [] value.cls = "NoneType" -> FALSE
      [] OTHER -> TRUE

quote_value_bool_late(value) ==
    IF isinstance(value, {"datetime", "date", "time", "str"})
    THEN "'" \o value.text \o "'"
    ELSE value.text

quote_value(value) ==
    IF isinstance(value, {"datetime", "date", "time", "str"})
    THEN "'" \o value.text \o "'"
    ELSE IF isinstance(value, {"bool"})
    THEN (IF Truth(value) THEN "1" ELSE "0")
    ELSE value.text

----------------------------------------------------------------------------
(* convert_query: FORMAT_QMARK_REGEX.sub('?', query).replace('%%', '%')    *)

Chars == {"%", "s", "x"}

\* (?<!%)%s matches at i: "%s" at i, i+1 and no "%" right before i
FORMAT_QMARK_REGEX(q, i) ==
    /\ i + 1 <= Len(q)
    /\ q[i] = "%"
    /\ q[i + 1] = "s"
    /\ ~(i > 1 /\ q[i - 1] = "%")

\* re.sub: leftmost non-overlapping matches, each replaced by "?"
RECURSIVE RegexSub(_, _)
RegexSub(q, i) ==
    IF i > Len(q) THEN <<>>
    ELSE IF FORMAT_QMARK_REGEX(q, i) THEN <<"?">> \o RegexSub(q, i + 2)
    ELSE <<q[i]>> \o RegexSub(q, i + 1)

\* str.replace('%%', '%'): leftmost non-overlapping occurrences
RECURSIVE ReplacePercents(_, _)
ReplacePercents(q, i) ==
    IF i > Len(q) THEN <<>>
    ELSE IF i + 1 <= Len(q) /\ q[i] = "%" /\ q[i + 1] = "%"
    THEN <<"%">> \o ReplacePercents(q, i + 2)
    ELSE <<q[i]>> \o ReplacePercents(q, i + 1)

convert_query(query) == ReplacePercents(RegexSub(query, 1), 1)

----------------------------------------------------------------------------
(* SQL tokens, as sqlparse.parse(query)[0].flatten() yields them: records  *)
(* [ttype, value], value being the token's text.                           *)

Symbols == {"?", "select", "FROM", "x", "(", ")", ";"}

\* the token type sqlparse's lexer gives a one-symbol token
TokenType(sym) ==
    CASE sym = "?" -> "Name.Placeholder"
      [] sym \in {"select", "SELECT"} -> "Keyword.DML"
      [] sym \in {"from", "FROM", "WHERE", "LIKE"} -> "Keyword"
      [] sym \in {"ALTER", "UPDATE", "INSERT"} -> "Keyword.DDL"
      [] sym \in {"(", ")", ";"} -> "Punctuation"
      [] sym = "%" -> "Operator"
      [] sym = " " -> "Text.Whitespace"
      [] OTHER -> "Name"

\* the lexer: one token per symbol, except that "%" followed by "s" is one
\* placeholder token (sqlparse lexes %s as Name.Placeholder, like ?) and that
\* a quoted string literal is one token
RECURSIVE Lex(_, _)
Lex(text, i) ==
    IF i > Len(text) THEN <<>>
    ELSE IF text[i] = "'" /\ \E j \in (i + 1)..Len(text) : text[j] = "'"
    THEN LET j == CHOOSE j \in (i + 1)..Len(text) :
                      text[j] = "'" /\ \A k \in (i + 1)..(j - 1) : text[k] # "'"
         IN <<[ttype |-> "Literal.String.Single", value |-> SubSeq(text, i, j)]>>
            \o Lex(text, j + 1)
    ELSE IF i + 1 <= Len(text) /\ text[i] = "%" /\ text[i + 1] = "s"
    THEN <<[ttype |-> "Name.Placeholder", value |-> <<"%", "s">>]>> \o Lex(text, i + 2)
    ELSE <<[ttype |-> TokenType(text[i]), value |-> <<text[i]>>]>> \o Lex(text, i + 1)

\* str.upper() on the symbols of the model
Upper(sym) ==
    CASE sym = "select" -> "SELECT"
      [] sym = "from" -> "FROM"
      [] sym = "t1" -> "T1"
      [] sym = "t2" -> "T2"
      [] sym = "t3" -> "T3"
      [] sym = "t1_m2m" -> "T1_M2M"
      [] sym = "id" -> "ID"
      [] sym = "c1" -> "C1"
      [] sym = "c2" -> "C2"
      [] sym = "t4" -> "T4"
      [] OTHER -> sym

\* str.lower() on the symbols of the model
Lower(sym) ==
    CASE sym = "T1" -> "t1"
      [] sym = "T2" -> "t2"
      [] sym = "T3" -> "t3"
      [] sym = "ID" -> "id"
      [] sym = "C1" -> "c1"
      [] sym = "C2" -> "c2"
      [] sym = "PK1" -> "pk1"
      [] sym = "UQ1" -> "uq1"
      [] sym = "FK1" -> "fk1"
      [] sym = "CK1" -> "ck1"
      [] sym = "IX1" -> "ix1"
      [] OTHER -> sym

\* Token.is_keyword: the token type is in the Keyword family
is_keyword(t) == t.ttype \in {"Keyword", "Keyword.DML", "Keyword.DDL"}

normalized_raw(t) == t.value

\* Token.normalized: value.upper() for a keyword, else the value
normalized(t) ==
    IF is_keyword(t) THEN [k \in 1..Len(t.value) |-> Upper(t.value[k])] ELSE t.value

IsSemicolon(t) == t.ttype = "Punctuation" /\ t.value = <<";">>

\* sqlparse.parse(query)[0]: the tokens of the first statement, which ends
\* with the first semicolon (kept) or with the text
FirstStatement(tokens) ==
    IF \E i \in 1..Len(tokens) : IsSemicolon(tokens[i])
    THEN SubSeq(tokens, 1, CHOOSE i \in 1..Len(tokens) :
                               /\ IsSemicolon(tokens[i])
                               /\ \A j \in 1..(i - 1) : ~IsSemicolon(tokens[j]))
    ELSE tokens

\* ''.join(tmp)
RECURSIVE Join(_)
Join(tmp) == IF tmp = <<>> THEN <<>> ELSE Head(tmp) \o Join(Tail(tmp))

----------------------------------------------------------------------------
(* _replace_placeholders_in_select_clause: the loop over the tokens.       *)
(* i is the position of the token at hand; current_param_idx,              *)
(* in_select_clause, params and tmp are the locals of the method.          *)
(* params.pop(current_param_idx) raises IndexError past the end.           *)

RECURSIVE ReplaceLoop(_, _, _, _, _, _)
ReplaceLoop(stmt, i, current_param_idx, in_select_clause, params, tmp) ==
    IF i > Len(stmt)
    THEN [kind |-> "return", query |-> Join(tmp), params |-> params]
    ELSE LET t == stmt[i] IN
         IF t.ttype = "Name.Placeholder"
         THEN LET idx == current_param_idx + 1 IN
              IF in_select_clause
              THEN IF idx >= Len(params)
                   THEN [kind |-> "raise", exc |-> [cls |-> "IndexError", args |-> <<>>]]
                   ELSE ReplaceLoop(stmt, i + 1, idx, in_select_clause,
                                    RemoveAt(params, idx + 1),
                                    Append(tmp, <<quote_value(params[idx + 1])>>))
              ELSE ReplaceLoop(stmt, i + 1, idx, in_select_clause, params,
                               Append(tmp, t.value))
         ELSE IF normalized(t) = <<"SELECT">>
         THEN ReplaceLoop(stmt, i + 1, current_param_idx, TRUE, params,
                          Append(tmp, t.value))
         ELSE IF normalized(t) = <<"FROM">>
         THEN ReplaceLoop(stmt, i + 1, current_param_idx, FALSE, params,
                          Append(tmp, t.value))
         ELSE ReplaceLoop(stmt, i + 1, current_param_idx, in_select_clause,
                          params, Append(tmp, t.value))

\* sqlparse.parse('') is empty, so its [0] raises IndexError
_replace_placeholders_in_select_clause(params, query) ==
    IF query = <<>>
    THEN [kind |-> "raise", exc |-> [cls |-> "IndexError", args |-> <<>>]]
    ELSE ReplaceLoop(FirstStatement(Lex(query, 1)), 1, -1, FALSE, params, <<>>)

----------------------------------------------------------------------------
(* The pure functions of the cursor wrapper, each applied to inputs drawn  *)
(* by the initial state.                                                   *)

\* the parameter at position k of a parameter list (distinct per position)
Pool ==
    << [cls |-> "str", text |-> "a"], [cls |-> "int", text |-> "42"],
       [cls |-> "bool", text |-> "True"], [cls |-> "date", text |-> "2020-01-02"],
       [cls |-> "float", text |-> "1.754"], [cls |-> "str", text |-> "b"],
       [cls |-> "int", text |-> "7"], [cls |-> "bool", text |-> "False"] >>

ParamLists == {[k \in 1..n |-> Pool[k]] : n \in 0..MaxParams}

PureCalls ==
    {[op |-> "_replace_placeholders_in_select_clause", params |-> p, query |-> q] :
        p \in ParamLists, q \in SeqsUpTo(Symbols, MaxTokens)}
    \cup {[op |-> "convert_query", query |-> q] : q \in SeqsUpTo(Chars, MaxChars)}
    \cup {[op |-> "quote_value", value |-> v] : v \in Values}

InitPure ==
    /\ call \in PureCalls
    /\ result = NoResult
    /\ cursor = NoCursor
    /\ driver = NoOutcome
    /\ settings_dict = NoSettings
    /\ connection = "None"
    /\ odbc = NoOdbc
    /\ catalog = NoCatalog
    /\ handle = NoHandle

ReplacePlaceholders ==
    /\ call.op = "_replace_placeholders_in_select_clause"
    /\ result = NoResult
    /\ result' = _replace_placeholders_in_select_clause(call.params, call.query)
    /\ UNCHANGED <<call, cursor, driver, settings_dict, connection, odbc, catalog, handle>>

ConvertQuery ==
    /\ call.op = "convert_query"
    /\ result = NoResult
    /\ result' = [kind |-> "return", query |-> convert_query(call.query)]
    /\ UNCHANGED <<call, cursor, driver, settings_dict, connection, odbc, catalog, handle>>

QuoteValue ==
    /\ call.op = "quote_value"
    /\ result = NoResult
    /\ result' = [kind |-> "return", text |-> quote_value(call.value)]
    /\ UNCHANGED <<call, cursor, driver, settings_dict, connection, odbc, catalog, handle>>

NextPure == ReplacePlaceholders \/ ConvertQuery \/ QuoteValue

SpecPure == InitPure /\ [][NextPure]_vars

----------------------------------------------------------------------------
(* Exceptions.  An exception is [cls, args]; every element of args is a    *)
(* text.  pyodbc errors carry (SQLSTATE, message).                         *)

\* the classes `except Database.Error` catches
DatabaseErrorClasses ==
    {"pyodbc.Error", "pyodbc.InterfaceError", "pyodbc.DatabaseError",
     "pyodbc.IntegrityError", "pyodbc.ProgrammingError", "pyodbc.OperationalError"}

\* driver messages: 3, 4 or 5 bracketed prefixes (a blank after the first,
\* as the iAccess driver writes them), an SQL code, and the rest
RECURSIVE Prefixes(_)
Prefixes(k) == IF k = 0 THEN <<>> ELSE <<"[", "x", "]">> \o Prefixes(k - 1)

Messages ==
    {<<"[", "x", "]", " ">> \o Prefixes(k) \o <<code, " ", "x">> :
        k \in {2, 3, 4}, code \in {"SQL0530", "SQL0910", "SQL0803"}}
    \cup {Prefixes(4) \o <<code>> : code \in {"SQL0530", "SQL0910"}}
    \cup {<<"x">>}

GroupEnds_no_blank(msg, p) ==
    IF p > Len(msg) \/ msg[p] # "["
    THEN {}
    ELSE {q \in (p + 3)..(Len(msg) + 1) : msg[q - 1] = "]"}

\* the positions right after one match of  \[.+] *  that starts at p
GroupEnds(msg, p) ==
    IF p > Len(msg) \/ msg[p] # "["
    THEN {}
    ELSE {q \in (p + 3)..(Len(msg) + 1) :
            \E j \in (p + 2)..(q - 1) :
                /\ msg[j] = "]"
                /\ \A k \in (j + 1)..(q - 1) : msg[k] = " "}

\* the positions right after n consecutive matches of the group, from P
RECURSIVE AfterGroups(_, _, _)
AfterGroups(msg, P, n) ==
    IF n = 0 THEN P
    ELSE AfterGroups(msg, UNION {GroupEnds(msg, p) : p \in P}, n - 1)

\* re.match of  ^(\[.+] *){4}<code>.*
SqlcodeRegexMatch(msg, code) ==
    \E q \in AfterGroups(msg, {1}, 4) : q <= Len(msg) /\ msg[q] = code

SQLCODE_0530_REGEX(msg) == SqlcodeRegexMatch(msg, "SQL0530")

SQLCODE_0910_REGEX(msg) == SqlcodeRegexMatch(msg, "SQL0910")

----------------------------------------------------------------------------
(* The driver cursor and DB2CursorWrapper.execute / executemany / close.   *)

HY000 == <<"HY000">>

Explanation ==
    <<"Db2 for iSeries cannot reset a table's primary key sequence during same transaction as insert/update on that table">>

\* what the raised exceptions carry besides the driver's arguments
FuncArg(func) == <<"cursor." \o func>>
ParamsArg == <<"<params>">>
ArgsTupleArg == <<"<(query, params)>">>

startswith(text, prefix) ==
    Len(text) >= Len(prefix) /\ SubSeq(text, 1, Len(prefix)) = prefix

contains(text, part) ==
    \E i \in 1..(Len(text) - Len(part) + 1) : SubSeq(text, i, i + Len(part) - 1) = part

IsSequenceReset_either(query) ==
    \/ startswith(query, <<"ALTER", " ", "TABLE">>)
    \/ contains(query, <<"RESTART", " ", "WITH">>)

\* query.startswith('ALTER TABLE') and 'RESTART WITH' in query
IsSequenceReset(query) ==
    /\ startswith(query, <<"ALTER", " ", "TABLE">>)
    /\ contains(query, <<"RESTART", " ", "WITH">>)

reraise_args_last(e, execute) ==
    [kind |-> "raise",
     exc |-> [cls |-> e.cls,
              args |-> <<FuncArg(execute.func), ArgsTupleArg>> \o e.args]]

\* raise type(e)(*e.args, execute.func, execute.args)
reraise(e, execute) ==
    [kind |-> "raise",
     exc |-> [cls |-> e.cls,
              args |-> e.args \o <<FuncArg(execute.func), ArgsTupleArg>>]]

\* _wrap_execute(execute) where execute = partial(func, query, params) and
\* outcome is what the driver does when called
_wrap_execute(execute, outcome) ==
    IF outcome.kind = "return"
    THEN [kind |-> "return",
          value |-> IF outcome.value = "cursor" THEN "self" ELSE outcome.value]
    ELSE LET e == outcome.exc IN
         IF e.cls \notin DatabaseErrorClasses
         THEN [kind |-> "raise", exc |-> e]
         ELSE IF Len(e.args) = 0 \/ (e.args[1] = HY000 /\ Len(e.args) < 2)
         THEN [kind |-> "raise", exc |-> [cls |-> "IndexError", args |-> <<>>]]
         ELSE IF e.args[1] = HY000 /\ SQLCODE_0530_REGEX(e.args[2])
         THEN [kind |-> "raise",
               exc |-> [cls |-> "django.IntegrityError",
                        args |-> e.args \o <<FuncArg(execute.func), execute.query, ParamsArg>>]]
         ELSE IF /\ e.args[1] = HY000
                 /\ SQLCODE_0910_REGEX(e.args[2])
                 /\ IsSequenceReset(execute.query)
         THEN [kind |-> "raise",
               exc |-> [cls |-> "django.ProgrammingError",
                        args |-> e.args \o <<FuncArg(execute.func), ArgsTupleArg, Explanation>>]]
         ELSE reraise(e, execute)

\* execute(query, params): the outcome and the calls made to the driver
execute(query, params, outcome) ==
    IF params # <<>>
    THEN LET r == _replace_placeholders_in_select_clause(params, convert_query(query)) IN
         IF r.kind = "raise"
         THEN [kind |-> "raise", exc |-> r.exc, driver_calls |-> <<>>]
         ELSE [driver_calls |-> <<[func |-> "execute", query |-> r.query, params |-> r.params]>>]
              @@ _wrap_execute([func |-> "execute", query |-> r.query], outcome)
    ELSE [driver_calls |-> <<[func |-> "execute", query |-> query, params |-> params]>>]
         @@ _wrap_execute([func |-> "execute", query |-> query], outcome)

executemany_unguarded(query, param_list, outcome) ==
    [driver_calls |-> <<[func |-> "executemany", query |-> convert_query(query),
                         param_list |-> param_list]>>]
    @@ _wrap_execute([func |-> "executemany", query |-> convert_query(query)], outcome)

\* executemany(query, param_list)
executemany(query, param_list, outcome) ==
    IF param_list = <<>>
    THEN [kind |-> "return", value |-> "None", driver_calls |-> <<>>]
    ELSE [driver_calls |-> <<[func |-> "executemany", query |-> convert_query(query),
                              param_list |-> param_list]>>]
         @@ _wrap_execute([func |-> "executemany", query |-> convert_query(query)], outcome)

getattr_connection_always(c) == TRUE

\* getattr(self, 'connection', False): the wrapper has no such attribute, so
\* __getattr__ asks the driver cursor, which has it until it is closed
getattr_connection(c) == c.connection

\* the queries handed to execute and executemany
Queries ==
    { <<"select", " ", "%", "s", " ", "FROM", " ", "x", " ", "WHERE", " ", "x", "=", "%", "s">>,
      <<"select", " ", "x", " ", "FROM", " ", "x", " ", "WHERE", " ", "x", " ", "LIKE", " ",
        "'", "%", "%", "s", "'">>,
      <<"INSERT", " ", "x", " ", "(", "%", "s", ")">>,
      <<"select", " ", "%", "s", ",", "%", "s", " ", "FROM", " ", "x">>,
      <<"ALTER", " ", "TABLE", " ", "x", " ", "RESTART", " ", "WITH", " ", "1">>,
      <<"ALTER", " ", "TABLE", " ", "x", " ", "ADD", " ", "x">>,
      <<"UPDATE", " ", "x", " ", "RESTART", " ", "WITH", " ", "%", "s">> }

ExecuteParams == {[k \in 1..n |-> Pool[k]] : n \in 0..MaxExecParams}

ParamListLists ==
    {<<>>} \cup {<<p>> : p \in ExecuteParams} \cup {<<p, p>> : p \in ExecuteParams}

DriverErrors ==
    {[cls |-> c, args |-> a] :
        c \in {"pyodbc.Error", "pyodbc.ProgrammingError", "TypeError"},
        a \in {<<state, m>> : state \in {HY000, <<"23503">>}, m \in Messages}
              \cup {<<>>, <<HY000>>, <<<<"Attempt to use a closed cursor.">>>>}}

DriverOutcomes ==
    {[kind |-> "return", value |-> v] : v \in {"cursor", "None"}}
    \cup {[kind |-> "raise", exc |-> e] : e \in DriverErrors}

\* DB2CursorWrapper(connection): the driver cursor is open
Init ==
    /\ call = [op |-> "__init__"]
    /\ result = [kind |-> "return", value |-> "None", driver_calls |-> <<>>]
    /\ cursor = [connection |-> TRUE, closes |-> 0]
    /\ driver \in DriverOutcomes
    /\ settings_dict = NoSettings
    /\ connection = "None"
    /\ odbc = NoOdbc
    /\ catalog = NoCatalog
    /\ handle = NoHandle

Execute ==
    \E q \in Queries, p \in ExecuteParams :
        /\ call' = [op |-> "execute", query |-> q, params |-> p]
        /\ result' = execute(q, p, driver)
        /\ UNCHANGED <<cursor, driver, settings_dict, connection, odbc, catalog, handle>>

ExecuteMany ==
    \E q \in Queries, pl \in ParamListLists :
        /\ call' = [op |-> "executemany", query |-> q, param_list |-> pl]
        /\ result' = executemany(q, pl, driver)
        /\ UNCHANGED <<cursor, driver, settings_dict, connection, odbc, catalog, handle>>

\* close(); the driver's close() removes the cursor's connection attribute and
\* refuses a cursor that is closed already
Close ==
    /\ cursor.closes < MaxCloses
    /\ call' = [op |-> "close"]
    /\ IF getattr_connection(cursor)
       THEN /\ cursor' = [connection |-> FALSE, closes |-> cursor.closes + 1]
            /\ result' = IF cursor.connection
                         THEN [kind |-> "return", value |-> "None", forwarded |-> TRUE]
                         ELSE [kind |-> "raise", forwarded |-> TRUE,
                               exc |-> [cls |-> "pyodbc.ProgrammingError",
                                        args |-> <<<<"Attempt to use a closed cursor.">>>>]]
       ELSE /\ cursor' = cursor
            /\ result' = [kind |-> "return", value |-> "None", forwarded |-> FALSE]
    /\ UNCHANGED <<driver, settings_dict, connection, odbc, catalog, handle>>

Next == Execute \/ ExecuteMany \/ Close

Spec == Init /\ [][Next]_vars

----------------------------------------------------------------------------
(* DatabaseWrapper: get_connection_params, get_new_connection, connect.    *)
(* A dict is a function from its keys to values.                           *)

Put(d, k, v) == [x \in (DOMAIN d) \cup {k} |-> IF x = k THEN v ELSE d[x]]

Del(d, k) == [x \in (DOMAIN d) \ {k} |-> d[x]]

\* d.update(e)
Update(d, e) == [x \in (DOMAIN d) \cup (DOMAIN e) |-> IF x \in DOMAIN e THEN e[x] ELSE d[x]]

\* a dict value and its items
Dict(text, items) == [cls |-> "dict", text |-> text, items |-> items]

Str(text) == [cls |-> "str", text |-> text]

None == [cls |-> "NoneType", text |-> "None"]

ValidName_nonempty(database_name) == database_name.text # ""

\* database_name != '' and isinstance(database_name, str)
ValidName(database_name) ==
    ~(database_name.cls = "str" /\ database_name.text = "")
    /\ isinstance(database_name, {"str"})

\* kwargs[k] = settings_dict[K] when K is set and a str
CopyStr(kwargs, sd, K, k) ==
    IF K \in DOMAIN sd /\ isinstance(sd[K], {"str"}) THEN Put(kwargs, k, sd[K]) ELSE kwargs

get_connection_params(sd) ==
    IF ~ValidName(sd["NAME"])
    THEN [kind |-> "raise",
          exc |-> [cls |-> "django.ImproperlyConfigured",
                   args |-> <<<<"Please specify the valid database Name to connect to">>>>]]
    ELSE LET k1 == Put(<<>>, "database", sd["NAME"])
             k2 == CopyStr(k1, sd, "USER", "user")
             k3 == CopyStr(k2, sd, "PASSWORD", "password")
             k4 == CopyStr(k3, sd, "HOST", "host")
             k5 == CopyStr(k4, sd, "PORT", "port")
             k6 == IF isinstance(sd["OPTIONS"], {"dict"})
                   THEN Put(k5, "options", sd["OPTIONS"]) ELSE k5
             k7 == IF "PCONNECT" \in DOMAIN sd
                   THEN Put(k6, "PCONNECT", sd["PCONNECT"]) ELSE k6
             k8 == CopyStr(k7, sd, "CURRENTSCHEMA", "currentschema")
             k9 == CopyStr(k8, sd, "SECURITY", "security")
             k10 == CopyStr(k9, sd, "SSLCLIENTKEYDB", "sslclientkeydb")
             k11 == CopyStr(k10, sd, "SSLCLIENTKEYSTOREDBPASSWORD", "sslclientkeystoredbpassword")
             k12 == CopyStr(k11, sd, "SSLCLIENTKEYSTASH", "sslclientkeystash")
             k13 == CopyStr(k12, sd, "SSLSERVERCERTIFICATE", "sslservercertificate")
         IN [kind |-> "return", kwargs |-> k13]

\* kwargs.get(k) formatted with %s
Get(kwargs, k) == IF k \in DOMAIN kwargs THEN kwargs[k].text ELSE "None"

\* kwargs['dsn'] += "<KEY>=%s;" % kwargs.get(k); del kwargs[k]
AppendOption(st, k, KEY) ==
    IF k \in DOMAIN st.kwargs
    THEN [dsn |-> st.dsn \o <<KEY, Get(st.kwargs, k), ";">>, kwargs |-> Del(st.kwargs, k)]
    ELSE st

\* get_new_connection(kwargs): the outcome, the call made to Database.connect
\* and the statements executed on the new connection
UsesFullString_host_only(kwargs) == "host" \in DOMAIN kwargs

\* 'port' in kwargs and 'host' in kwargs
UsesFullString(kwargs) == "port" \in DOMAIN kwargs /\ "host" \in DOMAIN kwargs

SchemaWanted_not_none(currentschema) == currentschema # None

\* if currentschema:
SchemaWanted(currentschema) == Truth(currentschema)

\* f'SET CURRENT_SCHEMA = {schema}'
SetCurrentSchemaSql(schema) == <<"SET", " ", "CURRENT_SCHEMA", " ", "=", " ", schema.text>>

\* calls lists, in order, what was done with the driver: Database.connect,
\* connection.cursor() and cursor.execute
get_new_connection(kwargs, env, execute_outcome) ==
    LET driver_name == IF env.platform = "Windows"
                       THEN "{iSeries Access ODBC Driver}"
                       ELSE "{IBM i Access ODBC Driver}"
        s0 == [kwargs |-> kwargs,
               dsn |-> IF UsesFullString(kwargs)
                       THEN <<"DRIVER=", driver_name, ";",
                              "DATABASE=", Get(kwargs, "database"), ";",
                              "UNICODESQL=", "1", ";", "XDYNAMIC=", "1", ";",
                              "PKG=", "A/DJANGO,2,0,0,1,512", ";",
                              "SYSTEM=", Get(kwargs, "host"), ";",
                              "PORT=", Get(kwargs, "port"), ";",
                              "PROTOCOL=", "TCPIP", ";",
                              "UID=", Get(kwargs, "user"), ";",
                              "PWD=", Get(kwargs, "password")>>
                       ELSE <<Get(kwargs, "database")>>]
        s1 == AppendOption(s0, "security", "security=")
        s2 == AppendOption(s1, "sslclientkeystoredb", "SSLCLIENTKEYSTOREDB=")
        s3 == AppendOption(s2, "sslclientkeystoredbpassword", "SSLCLIENTKEYSTOREDBPASSWORD=")
        s4 == AppendOption(s3, "sslclientkeystash", "SSLCLIENTKEYSTASH=")
        s5 == AppendOption(s4, "sslservercertificate", "SSLSERVERCERTIFICATE=")
        k1 == Put(s5.kwargs, "conn_options", [cls |-> "dict", text |-> "{'autocommit': False}"])
        k2 == Del(IF "options" \in DOMAIN k1
                  THEN Del(Update(k1, k1["options"].items), "options")
                  ELSE k1, "port")
        currentschema == IF "currentschema" \in DOMAIN k2 THEN k2["currentschema"] ELSE None
        k3 == Del(k2, "currentschema")
        \* kwargs.pop('dsn', ''): the string built above unless the options
        \* brought a 'dsn' of their own
        dsn == IF "dsn" \in DOMAIN k3 THEN <<k3["dsn"].text>> ELSE s5.dsn
        connect_calls == <<[dsn |-> dsn, kwargs |-> Del(k3, "dsn")]>>
    IN IF env.connect.kind = "raise"
       THEN [kind |-> "raise", exc |-> env.connect.exc,
             connect_calls |-> connect_calls, statements |-> <<>>,
             calls |-> <<"connect">>]
       ELSE IF SchemaWanted(currentschema)
       THEN LET query == SetCurrentSchemaSql(currentschema)
                r == execute(query, <<>>, execute_outcome)
            IN IF r.kind = "raise"
               THEN [kind |-> "raise", exc |-> r.exc,
                     connect_calls |-> connect_calls, statements |-> <<query>>,
                     calls |-> <<"connect", "cursor", "execute">>]
               ELSE [kind |-> "return", value |-> "connection",
                     connect_calls |-> connect_calls, statements |-> <<query>>,
                     calls |-> <<"connect", "cursor", "execute">>]
       ELSE [kind |-> "return", value |-> "connection",
             connect_calls |-> connect_calls, statements |-> <<>>,
             calls |-> <<"connect">>]

\* BaseDatabaseWrapper.connect(): the parameters, then the new connection
base_connect(sd, env, execute_outcome) ==
    LET conn_params == get_connection_params(sd) IN
    IF conn_params.kind = "raise"
    THEN [kind |-> "raise", exc |-> conn_params.exc,
          connect_calls |-> <<>>, statements |-> <<>>, calls |-> <<>>]
    ELSE get_new_connection(conn_params.kwargs, env, execute_outcome)

error_codes_remap_none == {}

error_codes_remap_to_database_error == {<<"28000">>}

\* DatabaseWrapper.connect()
connect(sd, env, execute_outcome) ==
    LET r == base_connect(sd, env, execute_outcome) IN
    IF r.kind = "raise" /\ r.exc.cls = "pyodbc.InterfaceError"
    THEN IF Len(r.exc.args) = 0
         THEN [r EXCEPT !.exc = [cls |-> "IndexError", args |-> <<>>]]
         ELSE IF r.exc.args[1] \in error_codes_remap_to_database_error
         THEN [r EXCEPT !.exc = [cls |-> "django.DatabaseError", args |-> r.exc.args]]
         ELSE r
    ELSE r

Settings ==
    {[NAME |-> n, USER |-> u, PASSWORD |-> pw, HOST |-> h, PORT |-> pt,
      OPTIONS |-> o] @@ extra :
        o \in {Dict("{}", <<>>), Dict("{'timeout': '5'}", [timeout |-> Str("5")])},
        n \in {Str("iseries"), Str(""), None, [cls |-> "int", text |-> "5"]},
        u \in {Str("user"), None},
        pw \in {Str("pw"), None},
        h \in {Str("host"), None},
        pt \in {Str("446"), [cls |-> "int", text |-> "446"]},
        extra \in {<<>>, [CURRENTSCHEMA |-> Str("lib")], [CURRENTSCHEMA |-> Str("")],
                   [SECURITY |-> Str("SSL")],
                   [CURRENTSCHEMA |-> Str("lib"), SECURITY |-> Str("SSL")],
                   [SECURITY |-> Str("SSL"), SSLCLIENTKEYSTASH |-> Str("stash")],
                   [SSLSERVERCERTIFICATE |-> Str("cert")]}}

ConnectOutcomes ==
    {[kind |-> "return", value |-> "connection"]}
    \cup {[kind |-> "raise", exc |-> [cls |-> c, args |-> a]] :
            c \in {"pyodbc.InterfaceError", "pyodbc.OperationalError"},
            a \in {<<<<"28000">>, <<"x">>>>, <<<<"IM002">>, <<"x">>>>}}
    \cup {[kind |-> "raise", exc |-> [cls |-> "pyodbc.InterfaceError", args |-> <<>>]]}

SchemaOutcomes ==
    {[kind |-> "return", value |-> "cursor"],
     [kind |-> "raise", exc |-> [cls |-> "pyodbc.ProgrammingError",
                                 args |-> <<<<"42704">>, <<"x">>>>]],
     [kind |-> "raise", exc |-> [cls |-> "pyodbc.InterfaceError",
                                 args |-> <<<<"28000">>, <<"x">>>>]]}

InitConn ==
    /\ call = [op |-> "__init__"]
    /\ result = NoResult
    /\ cursor = NoCursor
    /\ driver \in SchemaOutcomes
    /\ settings_dict \in Settings
    /\ connection = "None"
    /\ odbc \in [platform : {"Windows", "Linux"}, connect : ConnectOutcomes]
    /\ catalog = NoCatalog
    /\ handle = NoHandle

GetConnectionParams ==
    /\ call' = [op |-> "get_connection_params"]
    /\ result' = get_connection_params(settings_dict)
    /\ UNCHANGED <<cursor, driver, settings_dict, connection, odbc, catalog, handle>>

ClosedConnection == <<"Attempt to use a closed connection.">>

\* str(e)
StrOfException(e) ==
    CASE Len(e.args) = 0 -> <<>>
      [] Len(e.args) = 1 -> e.args[1]
      [] OTHER -> <<"(">> \o Join(e.args) \o <<")">>

pybase_close_swallow_all(outcome) ==
    [kind |-> "return", value |-> "None"]

\* pybase.DatabaseWrapper.close(connection), outcome being what the driver's
\* connection.close() does
pybase_close(outcome) ==
    IF /\ outcome.kind = "raise"
       /\ ~(/\ outcome.exc.cls = "pyodbc.ProgrammingError"
            /\ StrOfException(outcome.exc) = ClosedConnection)
    THEN outcome
    ELSE [kind |-> "return", value |-> "None"]

\* what connection.close() of the driver can do: a closed handle refuses the
\* call, an open one is closed or reports an error and stays open
HandleCloseOutcomes(h) ==
    IF h.open
    THEN {[kind |-> "return", value |-> "None"],
          [kind |-> "raise", exc |-> [cls |-> "pyodbc.ProgrammingError",
                                      args |-> <<<<"42000">>, <<"x">>>>]],
          [kind |-> "raise", exc |-> [cls |-> "pyodbc.OperationalError",
                                      args |-> <<<<"08S01">>, <<"x">>>>]]}
    ELSE {[kind |-> "raise", exc |-> [cls |-> "pyodbc.ProgrammingError",
                                      args |-> <<ClosedConnection>>]]}

\* DatabaseWrapper.close()
CloseConnection ==
    /\ handle.closes < MaxCloses
    /\ call' = [op |-> "close"]
    /\ IF connection # "None"
       THEN \E outcome \in HandleCloseOutcomes(handle) :
               LET r == pybase_close(outcome) IN
               /\ handle' = [open |-> handle.open /\ outcome.kind = "raise",
                             closes |-> handle.closes + 1,
                             failed |-> handle.failed + (IF r.kind = "raise" THEN 1 ELSE 0),
                             last |-> outcome]
               /\ result' = r @@ [driver_calls |-> <<"close">>]
               /\ connection' = IF r.kind = "raise" THEN connection ELSE "None"
       ELSE /\ result' = [kind |-> "return", value |-> "None", driver_calls |-> <<>>]
            /\ UNCHANGED <<connection, handle>>
    /\ UNCHANGED <<cursor, driver, settings_dict, odbc, catalog>>

\* other code holding the driver connection (connection.connection) closes it
HandleClosedDirectly ==
    /\ handle.open
    /\ handle' = [handle EXCEPT !.open = FALSE]
    /\ UNCHANGED <<call, result, cursor, driver, settings_dict, connection, odbc, catalog>>

Connect ==
    /\ call' = [op |-> "connect"]
    /\ result' = connect(settings_dict, odbc, driver)
    /\ connection' = IF result'.kind = "return" THEN result'.value ELSE connection
    /\ handle' = IF result'.kind = "return"
                 THEN [open |-> TRUE, closes |-> 0, failed |-> 0, last |-> NoOutcome]
                 ELSE handle
    /\ UNCHANGED <<cursor, driver, settings_dict, odbc, catalog>>

NextConn == GetConnectionParams \/ Connect \/ CloseConnection \/ HandleClosedDirectly

SpecConn == InitConn /\ [][NextConn]_vars

----------------------------------------------------------------------------
(* DatabaseOperations: quote_name, sql_flush, sequence_reset_sql.  Names   *)
(* and statements are texts; style.SQL_KEYWORD / SQL_TABLE leave the text  *)
(* of a statement as it is.                                                *)

MaxTables == 2      \* tables handed to sql_flush
MaxSequences == 2   \* sequences handed to sql_flush

\* str.upper() on a text
UpperText(text) == [k \in 1..Len(text) |-> Upper(text[k])]

QUOTE == "\""

\* quote_name(name)
quote_name(name) ==
    LET n == UpperText(name)
        starts == Len(n) >= 1 /\ n[1] = QUOTE
        ends == Len(n) >= 1 /\ n[Len(n)] = QUOTE
    IN IF starts /\ ends THEN n
       ELSE IF starts THEN n \o <<QUOTE>>
       ELSE IF ends THEN <<QUOTE>> \o n
       ELSE <<QUOTE>> \o n \o <<QUOTE>>

\* _foreign_key_constraints(table): the catalog rows (referencing table,
\* constraint, referencing column, target column) of the enabled foreign keys
\* whose target is table.upper(), one row per column of the key
_foreign_key_constraints(cat, table) ==
    IF UpperText(table) \in DOMAIN cat.foreign_keys
    THEN cat.foreign_keys[UpperText(table)]
    ELSE <<>>

_drop_constraint_sql(constraint) ==
    <<"ALTER", " ", "TABLE", " ">> \o quote_name(constraint[1])
    \o <<" ", "DROP", " ", "CONSTRAINT", " ">> \o quote_name(constraint[2])

_add_constraint_sql(constraint) ==
    <<"ALTER", " ", "TABLE", " ">> \o quote_name(constraint[1])
    \o <<" ", "ADD", " ", "CONSTRAINT", " ">> \o quote_name(constraint[2])
    \o <<" ", "FOREIGN", " ", "KEY", " ", "(">> \o quote_name(constraint[3])
    \o <<")", " ", "REFERENCES", " ">> \o quote_name(constraint[5])
    \o <<" ", "(">> \o constraint[4] \o <<")">>

COMMIT == <<"COMMIT">>

DeleteSql(table) ==
    <<"DELETE", " ", "FROM", " ">> \o quote_name(table)
    \o <<" ", "WHERE", " ", "1 = 1">>

RestartSql(sequence) ==
    <<"ALTER", " ", "TABLE", " ">> \o quote_name(sequence.table)
    \o <<" ", "ALTER", " ", "COLUMN", " ">> \o quote_name(sequence.column.text)
    \o <<" ", "RESTART", " ", "WITH", " ", "1">>

\* the orders in which a set can be iterated
Orders(S) ==
    {o \in [1..Cardinality(S) -> S] : \A i, j \in 1..Cardinality(S) : i # j => o[i] # o[j]}

\* the set `constraints` sql_flush collects
FlushConstraints(cat, tables) ==
    {<<row[1], row[2], row[3], row[4], tables[i]>> :
        <<i, row>> \in UNION {{<<i, _foreign_key_constraints(cat, tables[i])[k]>> :
                                  k \in 1..Len(_foreign_key_constraints(cat, tables[i]))} :
                              i \in 1..Len(tables)}}

\* for sequence in sequences if sequence['column'] is not None
RECURSIVE WithColumn(_)
WithColumn(sequences) ==
    IF sequences = <<>> THEN <<>>
    ELSE (IF Head(sequences).column.cls # "NoneType" THEN <<Head(sequences)>> ELSE <<>>)
         \o WithColumn(Tail(sequences))

\* sql_flush(style, tables, sequences, allow_cascade); order is the order in
\* which the set of constraints is iterated (the same both times, the set not
\* being changed in between)
sql_flush(cat, tables, sequences, allow_cascade, order) ==
    IF tables # <<>>
    THEN [k \in 1..Len(order) |-> _drop_constraint_sql(order[k])]
         \o <<COMMIT>>
         \o [k \in 1..Len(tables) |-> DeleteSql(tables[k])]
         \o <<COMMIT>>
         \o LET restarts == WithColumn(sequences)
            IN [k \in 1..Len(restarts) |-> RestartSql(restarts[k])]
         \o [k \in 1..Len(order) |-> _add_constraint_sql(order[k])]
    ELSE <<>>


\* SELECT MAX(<column>) FROM <table>
MaxSql(column, table) ==
    <<"SELECT", " ", "MAX", "(">> \o quote_name(column)
    \o <<")", " ", "FROM", " ">> \o quote_name(table)

\* [row[0] for row in cursor.fetchall()][0] after MaxSql: the largest value of
\* the table's identity column, None for a table without rows
FetchMax(cat, table) ==
    LET ids == cat.ids[UpperText(table)] IN
    IF ids = {} THEN [cls |-> "NoneType", value |-> 0]
    ELSE [cls |-> "int", value |-> CHOOSE x \in ids : \A y \in ids : y <= x]

restart_value_keep_max(max_id) == IF max_id.cls = "NoneType" THEN 0 ELSE max_id.value

\* if max_id[0] == None: max_id[0] = 0  ...  max_id[0] + 1
restart_value(max_id) == (IF max_id.cls = "NoneType" THEN 0 ELSE max_id.value) + 1

ResetSql(table, column, n) ==
    <<"ALTER", " ", "TABLE", " ">> \o quote_name(table)
    \o <<" ", "ALTER", " ", "COLUMN", " ">> \o quote_name(column)
    \o <<" ", "RESTART", " ", "WITH", " ", ToString(n)>>

\* for field in model._meta.local_fields: the first AutoField gets its
\* statement, and the loop breaks
RECURSIVE LocalFieldsLoop(_, _, _)
LocalFieldsLoop(cat, table, fields) ==
    IF fields = <<>> THEN [sqls |-> <<>>, statements |-> <<>>]
    ELSE IF isinstance(Head(fields), {"AutoField"})
    THEN [sqls |-> <<ResetSql(table, Head(fields).column,
                              restart_value(FetchMax(cat, table)))>>,
          statements |-> <<MaxSql(Head(fields).column, table)>>]
    ELSE LocalFieldsLoop(cat, table, Tail(fields))

\* for field in model._meta.many_to_many: a field without a through model
\* gets a statement for its table, numbered after the model's table
RECURSIVE ManyToManyLoop(_, _, _)
ManyToManyLoop(cat, table, fields) ==
    IF fields = <<>> THEN [sqls |-> <<>>, statements |-> <<>>]
    ELSE LET rest == ManyToManyLoop(cat, table, Tail(fields)) IN
         IF ~Head(fields).through
         THEN [sqls |-> <<ResetSql(Head(fields).m2m_table, <<"ID">>,
                                   restart_value(FetchMax(cat, table)))>> \o rest.sqls,
               statements |-> <<MaxSql(<<"ID">>, table)>> \o rest.statements]
         ELSE rest

\* sequence_reset_sql(style, model_list): the statements returned, and the
\* queries executed on the cursor it opens and closes
RECURSIVE sequence_reset_sql(_, _)
sequence_reset_sql(cat, model_list) ==
    IF model_list = <<>> THEN [sqls |-> <<>>, statements |-> <<>>]
    ELSE LET model == Head(model_list)
             a == LocalFieldsLoop(cat, model.db_table, model.local_fields)
             b == ManyToManyLoop(cat, model.db_table, model.many_to_many)
             rest == sequence_reset_sql(cat, Tail(model_list))
         IN [sqls |-> a.sqls \o b.sqls \o rest.sqls,
             statements |-> a.statements \o b.statements \o rest.statements]

----------------------------------------------------------------------------
(* DatabaseIntrospection.get_table_description.  Its three queries have    *)
(* their placeholders after FROM, so that the cursor wrapper hands them to *)
(* the driver as they are; the driver answers them from the catalog.       *)

CURRENT_SCHEMA == <<"LIB">>

identifier_converter_identity(name) == name

\* identifier_converter(name): name.lower()
identifier_converter(name) == [k \in 1..Len(name) |-> Lower(name[k])]

\* the rows of a set of column rows, ORDER BY ORDINAL_POSITION
RECURSIVE OrderByOrdinalPosition(_)
OrderByOrdinalPosition(rows) ==
    IF rows = {} THEN <<>>
    ELSE LET first == CHOOSE r \in rows :
                          \A o \in rows : r.ORDINAL_POSITION <= o.ORDINAL_POSITION
         IN <<first>> \o OrderByOrdinalPosition(rows \ {first})

\* SELECT ... FROM QSYS2.SYSCOLUMNS WHERE TABLE_NAME = ? AND
\* TABLE_SCHEMA = COALESCE(?, CURRENT_SCHEMA) ORDER BY ORDINAL_POSITION
ColumnDescriptions(cat, table_name, schema) ==
    LET key == <<IF schema.cls = "NoneType" THEN CURRENT_SCHEMA ELSE schema.text,
                 table_name>>
    IN IF key \in DOMAIN cat.columns
       THEN OrderByOrdinalPosition(cat.columns[key])
       ELSE <<>>

\* FieldInfo(identifier_converter(desc[0]), desc[1], *desc[2:], None)
FieldInfo(desc) ==
    [name |-> identifier_converter(desc.COLUMN_NAME),
     type_code |-> desc.DATA_TYPE,
     display_size |-> desc.DISPLAY_SIZE,
     internal_size |-> desc.INTERNAL_SIZE,
     precision |-> desc.NUMERIC_PRECISION,
     scale |-> desc.NUMERIC_SCALE,
     null_ok |-> desc.IS_NULLABLE,
     default |-> "None"]

\* get_table_description(cursor, table_name): the description, and which of
\* its queries were executed
get_table_description(cat, table_name) ==
    LET upper == UpperText(table_name) IN
    IF upper \notin DOMAIN cat.tables
    THEN \* cursor.fetchone() is None
         [kind |-> "raise", exc |-> [cls |-> "TypeError", args |-> <<>>],
          statements |-> <<"SYSTABLES">>]
    ELSE LET table_type == cat.tables[upper].type
             alias == table_type = "A"
             base_name == IF alias THEN cat.tables[upper].base.name ELSE table_name
             schema == IF alias
                       THEN [cls |-> "str", text |-> cat.tables[upper].base.schema]
                       ELSE [cls |-> "NoneType", text |-> <<>>]
             rows == ColumnDescriptions(cat, UpperText(base_name), schema)
         IN [kind |-> "return",
             description |-> IF table_type # "X"
                             THEN [k \in 1..Len(rows) |-> FieldInfo(rows[k])]
                             ELSE <<>>,
             statements |-> <<"SYSTABLES">>
                            \o (IF alias THEN <<"BASE_TABLE">> ELSE <<>>)
                            \o (IF table_type # "X" THEN <<"SYSCOLUMNS">> ELSE <<>>)]

----------------------------------------------------------------------------
(* DatabaseIntrospection.get_constraints.  The flags are the values the    *)
(* queries and the literals of the code give them, written as texts.       *)

\* CASE CONSTRAINT_TYPE WHEN <type> THEN 1 ELSE 0 END
CaseWhen(value, when) == IF value = when THEN "1" ELSE "0"

\* the rows of QSYS2.SYSCST joined with QSYS2.SYSCSTCOL for a table of the
\* current schema, in the order the database returns them
ConstraintRows(cat, table_name) ==
    IF table_name \in DOMAIN cat.constraints
    THEN [k \in 1..Len(cat.constraints[table_name]) |->
             LET row == cat.constraints[table_name][k] IN
             [constraint_name |-> row.CONSTRAINT_NAME,
              column_name |-> row.COLUMN_NAME,
              is_primary |-> CaseWhen(row.CONSTRAINT_TYPE, "PRIMARY KEY"),
              is_unique |-> CaseWhen(row.CONSTRAINT_TYPE, "UNIQUE"),
              is_foreign |-> CaseWhen(row.CONSTRAINT_TYPE, "FOREIGN KEY"),
              is_check |-> CaseWhen(row.CONSTRAINT_TYPE, "CHECK")]]
    ELSE <<>>

\* the rows of QSYS2.SYSINDEXES joined with QSYS2.SYSKEYS for a table of the
\* current schema, ORDER BY IDX.INDEX_NAME, K.ORDINAL_POSITION
IndexRows(cat, table_name) ==
    IF table_name \in DOMAIN cat.indexes
    THEN [k \in 1..Len(cat.indexes[table_name]) |->
             LET row == cat.indexes[table_name][k] IN
             [index_name |-> row.INDEX_NAME,
              column_name |-> row.COLUMN_NAME,
              is_unique |-> IF row.IS_UNIQUE = "D" THEN "0" ELSE "1"]]
    ELSE <<>>

\* constraints.setdefault(name, default)['columns'].append(column)
SetDefaultAppend(constraints, name, default, column) ==
    LET entry == IF name \in DOMAIN constraints THEN constraints[name] ELSE default
    IN Put(constraints, name, [entry EXCEPT !.columns = Append(@, column)])

\* for constraint_name, column_name, ... in cursor.fetchall()
RECURSIVE ConstraintsLoop(_, _)
ConstraintsLoop(constraints, rows) ==
    IF rows = <<>> THEN constraints
    ELSE LET row == Head(rows) IN
         ConstraintsLoop(
             SetDefaultAppend(constraints, identifier_converter(row.constraint_name),
                              [columns |-> <<>>,
                               primary_key |-> row.is_primary,
                               unique |-> row.is_unique,
                               foreign_key |-> row.is_foreign,
                               check |-> row.is_check,
                               index |-> "False"],
                              identifier_converter(row.column_name)),
             Tail(rows))

\* for index_name, column_name, is_unique in indexes.fetchall()
RECURSIVE IndexesLoop(_, _)
IndexesLoop(constraints, rows) ==
    IF rows = <<>> THEN constraints
    ELSE LET row == Head(rows) IN
         IndexesLoop(
             SetDefaultAppend(constraints, identifier_converter(row.index_name),
                              [columns |-> <<>>,
                               primary_key |-> "False",
                               unique |-> row.is_unique,
                               foreign_key |-> "None",
                               check |-> "False",
                               index |-> "True"],
                              identifier_converter(row.column_name)),
             Tail(rows))

\* get_constraints(cursor, table_name): the dictionary, and which of its
\* queries were executed
get_constraints(cat, table_name) ==
    LET upper == UpperText(table_name) IN
    IF upper \notin DOMAIN cat.tables
    THEN \* cursor.fetchone() is None
         [kind |-> "raise", exc |-> [cls |-> "TypeError", args |-> <<>>],
          statements |-> <<"SYSTABLES">>]
    ELSE LET alias == cat.tables[upper].type = "A"
             base_name == IF alias THEN cat.tables[upper].base.name ELSE table_name
             recorded == ConstraintsLoop(<<>>, ConstraintRows(cat, UpperText(base_name)))
         IN [kind |-> "return",
             constraints |-> IndexesLoop(recorded, IndexRows(cat, UpperText(base_name))),
             statements |-> <<"SYSTABLES">>
                            \o (IF alias THEN <<"BASE_TABLE">> ELSE <<>>)
                            \o <<"SYSCST", "SYSINDEXES">>]

----------------------------------------------------------------------------
(* The catalog the operations and the introspection read, and the calls    *)
(* made on them.                                                           *)

FkRow(foreign_table, constraint, foreign_col, target_col) ==
    <<<<foreign_table>>, <<constraint>>, <<foreign_col>>, <<target_col>>>>

\* QSYS2.SYSCST joined with its key columns: per target table, the rows
\* _foreign_key_constraints reads (none, one key, a key per table, a key
\* of two columns, a key held by a flushed table)
ForeignKeys ==
    { [t \in {} |-> <<>>],
      (<<"T1">> :> <<FkRow("T3", "FK1", "C1", "ID")>>),
      (<<"T1">> :> <<FkRow("T3", "FK1", "C1", "ID")>>)
          @@ (<<"T2">> :> <<FkRow("T3", "FK2", "C2", "ID")>>),
      (<<"T1">> :> <<FkRow("T3", "FK1", "C1", "ID"), FkRow("T3", "FK1", "C2", "C1")>>),
      (<<"T1">> :> <<FkRow("T2", "FK1", "C1", "ID"), FkRow("T3", "FK2", "C1", "ID")>>) }

TableNames == <<<<"t1">>, <<"t2">>, <<"t3">>>>

\* lists of distinct tables
TableLists ==
    {l \in SeqsUpTo({TableNames[k] : k \in 1..Len(TableNames)}, MaxTables) :
        \A i, j \in 1..Len(l) : i # j => l[i] # l[j]}

NoColumn == [cls |-> "NoneType", text |-> <<>>]

\* what sequence_list() hands to sql_flush: the table and its AutoField
\* column, or None for a table without one
SequenceDicts ==
    {[table |-> TableNames[k], column |-> c] :
        k \in 1..2, c \in {[cls |-> "str", text |-> <<"id">>], NoColumn}}

SequenceLists ==
    {l \in SeqsUpTo(SequenceDicts, MaxSequences) :
        \A i, j \in 1..Len(l) : i # j => l[i].table # l[j].table}

MaxModels == 2      \* models handed to sequence_reset_sql
MaxId == 2          \* largest value of an identity column

Field(cls, column) == [cls |-> cls, column |-> <<column>>]

\* the models: with an AutoField first, without one, with a BigAutoField
\* after another field; many-to-many fields with and without a through model
Models ==
    { [db_table |-> <<"t1">>,
       local_fields |-> <<Field("AutoField", "id"), Field("CharField", "c1")>>,
       many_to_many |-> <<[m2m_table |-> <<"t1_m2m">>, through |-> TRUE]>>],
      [db_table |-> <<"t2">>,
       local_fields |-> <<Field("CharField", "c1")>>,
       many_to_many |-> <<>>],
      [db_table |-> <<"t3">>,
       local_fields |-> <<Field("IntegerField", "c1"), Field("BigAutoField", "id")>>,
       many_to_many |-> <<>>],
      [db_table |-> <<"t2">>,
       local_fields |-> <<Field("CharField", "c1")>>,
       many_to_many |-> <<[m2m_table |-> <<"t1_m2m">>, through |-> FALSE]>>] }

ModelLists ==
    {l \in SeqsUpTo(Models, MaxModels) :
        \A i, j \in 1..Len(l) : i # j => l[i].db_table # l[j].db_table}

\* the values of the identity column of each table
IdSets ==
    {(<<"T1">> :> a) @@ (<<"T2">> :> {}) @@ (<<"T3">> :> b) :
        a \in {{}, 1..MaxId}, b \in {{}, {1}, {MaxId}}}

\* a row of QSYS2.SYSCOLUMNS
Column(position, name, data_type) ==
    [ORDINAL_POSITION |-> position, COLUMN_NAME |-> <<name>>, DATA_TYPE |-> data_type,
     DISPLAY_SIZE |-> "10", INTERNAL_SIZE |-> "4",
     NUMERIC_PRECISION |-> IF data_type = "INTEGER" THEN "10" ELSE "None",
     NUMERIC_SCALE |-> IF data_type = "INTEGER" THEN "0" ELSE "None",
     IS_NULLABLE |-> IF position = 1 THEN "0" ELSE "1"]

NoBase == [name |-> <<>>, schema |-> <<>>]

\* QSYS2.SYSTABLES of the current schema: a table, a table of type X, an
\* alias of a table of the given schema, a view
Tables(base_schema) ==
    (<<"T1">> :> [type |-> "T", base |-> NoBase])
    @@ (<<"T2">> :> [type |-> "X", base |-> NoBase])
    @@ (<<"T3">> :> [type |-> "A", base |-> [name |-> <<"T1">>, schema |-> <<base_schema>>]])
    @@ (<<"C1">> :> [type |-> "V", base |-> NoBase])

\* QSYS2.SYSCOLUMNS per schema and table
Columns ==
    (<<<<"LIB">>, <<"T1">>>> :> {Column(2, "C1", "VARCHAR"), Column(1, "ID", "INTEGER")})
    @@ (<<<<"LIB">>, <<"T2">>>> :> {Column(1, "ID", "INTEGER")})
    @@ (<<<<"OTHER">>, <<"T1">>>> :> {Column(1, "C2", "DATE"), Column(2, "ID", "INTEGER"),
                                     Column(3, "C1", "VARCHAR")})
    @@ (<<<<"LIB">>, <<"C1">>>> :> {})

CstRow(constraint, column, type) ==
    [CONSTRAINT_NAME |-> <<constraint>>, COLUMN_NAME |-> <<column>>, CONSTRAINT_TYPE |-> type]

IdxRow(index, column, is_unique) ==
    [INDEX_NAME |-> <<index>>, COLUMN_NAME |-> <<column>>, IS_UNIQUE |-> is_unique]

NoConstraints == [constraints |-> [t \in {} |-> <<>>], indexes |-> [t \in {} |-> <<>>]]

\* the constraints and the indexes of table T1: a primary key alone; keys of
\* two columns beside a non-unique index; a unique index named like the
\* primary key; a foreign key and a check beside a unique index of two
\* columns; a unique constraint with the index named like it
ConstraintSets ==
    { NoConstraints,
      [constraints |-> (<<"T1">> :> <<CstRow("PK1", "ID", "PRIMARY KEY")>>),
       indexes |-> [t \in {} |-> <<>>]],
      [constraints |-> (<<"T1">> :> <<CstRow("PK1", "ID", "PRIMARY KEY"),
                                      CstRow("UQ1", "C1", "UNIQUE"),
                                      CstRow("PK1", "C1", "PRIMARY KEY")>>),
       indexes |-> (<<"T1">> :> <<IdxRow("IX1", "C1", "D"), IdxRow("IX1", "ID", "D")>>)],
      [constraints |-> (<<"T1">> :> <<CstRow("PK1", "ID", "PRIMARY KEY")>>),
       indexes |-> (<<"T1">> :> <<IdxRow("PK1", "ID", "U")>>)],
      [constraints |-> (<<"T1">> :> <<CstRow("FK1", "C1", "FOREIGN KEY"),
                                      CstRow("CK1", "C1", "CHECK")>>),
       indexes |-> (<<"T1">> :> <<IdxRow("IX1", "C1", "U"), IdxRow("IX1", "ID", "U")>>)],
      [constraints |-> (<<"T1">> :> <<CstRow("UQ1", "C1", "UNIQUE"),
                                      CstRow("UQ1", "ID", "UNIQUE")>>),
       indexes |-> (<<"T1">> :> <<IdxRow("IX1", "ID", "D"), IdxRow("UQ1", "C1", "U"),
                                  IdxRow("UQ1", "ID", "U")>>)] }

DefaultForeignKeys == [t \in {} |-> <<>>]

DefaultIds == (<<"T1">> :> {}) @@ (<<"T2">> :> {}) @@ (<<"T3">> :> {})

\* the databases checked: each varies one part of the catalog
Catalogs ==
    {[foreign_keys |-> fk, ids |-> DefaultIds, tables |-> Tables("LIB"),
      columns |-> Columns] @@ NoConstraints : fk \in ForeignKeys}
    \cup {[foreign_keys |-> DefaultForeignKeys, ids |-> ids, tables |-> Tables("LIB"),
           columns |-> Columns] @@ NoConstraints : ids \in IdSets}
    \cup {[foreign_keys |-> DefaultForeignKeys, ids |-> DefaultIds,
           tables |-> Tables(base_schema), columns |-> Columns] @@ NoConstraints :
              base_schema \in {"LIB", "OTHER"}}
    \cup {[foreign_keys |-> DefaultForeignKeys, ids |-> DefaultIds,
           tables |-> Tables("LIB"), columns |-> Columns] @@ cs :
              cs \in ConstraintSets}

InitCatalog ==
    /\ call = [op |-> "__init__"]
    /\ result = NoResult
    /\ cursor = NoCursor
    /\ driver = NoOutcome
    /\ settings_dict = NoSettings
    /\ connection = "None"
    /\ odbc = NoOdbc
    /\ catalog \in Catalogs
    /\ handle = NoHandle

SqlFlush ==
    \E tables \in TableLists, sequences \in SequenceLists, allow_cascade \in BOOLEAN :
        \E order \in Orders(FlushConstraints(catalog, tables)) :
            /\ call' = [op |-> "sql_flush", tables |-> tables, sequences |-> sequences,
                        allow_cascade |-> allow_cascade]
            /\ result' = [kind |-> "return",
                          sqls |-> sql_flush(catalog, tables, sequences, allow_cascade, order)]
            /\ UNCHANGED <<cursor, driver, settings_dict, connection, odbc, catalog, handle>>

SequenceResetSql ==
    \E model_list \in ModelLists :
        /\ call' = [op |-> "sequence_reset_sql", model_list |-> model_list]
        /\ result' = [kind |-> "return"] @@ sequence_reset_sql(catalog, model_list)
        /\ UNCHANGED <<cursor, driver, settings_dict, connection, odbc, catalog, handle>>

GetTableDescription ==
    \E table_name \in {<<"t1">>, <<"T1">>, <<"t2">>, <<"t3">>, <<"t4">>, <<"c1">>} :
        /\ call' = [op |-> "get_table_description", table_name |-> table_name]
        /\ result' = get_table_description(catalog, table_name)
        /\ UNCHANGED <<cursor, driver, settings_dict, connection, odbc, catalog, handle>>

GetConstraints ==
    \E table_name \in {<<"t1">>, <<"t2">>, <<"t3">>, <<"t4">>} :
        /\ call' = [op |-> "get_constraints", table_name |-> table_name]
        /\ result' = get_constraints(catalog, table_name)
        /\ UNCHANGED <<cursor, driver, settings_dict, connection, odbc, catalog, handle>>

NextCatalog == SqlFlush \/ SequenceResetSql \/ GetTableDescription \/ GetConstraints

SpecCatalog == InitCatalog /\ [][NextCatalog]_vars

----------------------------------------------------------------------------
(* Claims about the pure functions (checked under SpecPure)                *)

Returned(op) == call.op = op /\ result.kind = "return"

\* the first statement of a query: up to its first semicolon
StatementLen(q) ==
    IF \E i \in 1..Len(q) : q[i] = ";"
    THEN CHOOSE i \in 1..Len(q) : q[i] = ";" /\ \A j \in 1..(i - 1) : q[j] # ";"
    ELSE Len(q)

\* position i lies after a SELECT keyword and before the next FROM keyword
InSelectClause(q, i) ==
    \E j \in 1..(i - 1) :
        /\ q[j] \in {"select", "SELECT"}
        /\ \A k \in (j + 1)..(i - 1) : q[k] \notin {"from", "FROM"}

PlaceholderPositions(q) == {i \in 1..StatementLen(q) : q[i] = "?"}

\* the number (0, 1, 2, ... in text order) of the placeholder at position i
PlaceholderNumber(q, i) == Cardinality({j \in PlaceholderPositions(q) : j < i})

\* C1: in the returned query no placeholder of a select clause (after a SELECT
\* keyword, before the next FROM keyword) is still a '?', and every placeholder
\* of any other clause is still a '?'.
C1_SelectPlaceholdersBecomeLiterals ==
    Returned("_replace_placeholders_in_select_clause") =>
        /\ Len(result.query) = StatementLen(call.query)
        /\ \A i \in PlaceholderPositions(call.query) :
              IF InSelectClause(call.query, i)
              THEN result.query[i] # "?"
              ELSE result.query[i] = "?"

C1_Witness ==
    /\ Returned("_replace_placeholders_in_select_clause")
    /\ \E i, j \in PlaceholderPositions(call.query) :
          /\ InSelectClause(call.query, i)
          /\ ~InSelectClause(call.query, j)
          /\ result.query[i] # "?"
          /\ result.query[j] = "?"

\* the parameters of the placeholders number k, k+1, ... that lie outside the
\* select clauses, in order (p[k + 1] belongs to placeholder number k)
RECURSIVE KeptParams(_, _, _)
KeptParams(q, p, k) ==
    IF k >= Len(p) THEN <<>>
    ELSE LET i == CHOOSE i \in PlaceholderPositions(q) : PlaceholderNumber(q, i) = k
         IN (IF InSelectClause(q, i) THEN <<>> ELSE <<p[k + 1]>>)
            \o KeptParams(q, p, k + 1)

\* C2: when the rewrite returns for a statement with as many placeholders as
\* parameters, the select-clause placeholder number k has become
\* quote_value(p[k]) and the returned parameters are those of the placeholders
\* left in place, in order.
C2_LiteralIsOwnParameter ==
    (/\ Returned("_replace_placeholders_in_select_clause")
     /\ Len(call.params) = Cardinality(PlaceholderPositions(call.query)))
    => /\ \A i \in PlaceholderPositions(call.query) :
             InSelectClause(call.query, i) =>
                 result.query[i] = quote_value(call.params[PlaceholderNumber(call.query, i) + 1])
       /\ result.params = KeptParams(call.query, call.params, 0)

\* format ("%s") paramstyle read left to right: "%%" is a literal percent sign,
\* "%s" a placeholder
RECURSIVE FormatToQmark(_, _)
FormatToQmark(q, i) ==
    IF i > Len(q) THEN <<>>
    ELSE IF i + 1 <= Len(q) /\ q[i] = "%" /\ q[i + 1] = "%"
    THEN <<"%">> \o FormatToQmark(q, i + 2)
    ELSE IF i + 1 <= Len(q) /\ q[i] = "%" /\ q[i + 1] = "s"
    THEN <<"?">> \o FormatToQmark(q, i + 2)
    ELSE <<q[i]>> \o FormatToQmark(q, i + 1)

\* every "%" of q starts a "%%" or a "%s"
RECURSIVE WellFormedFormat(_, _)
WellFormedFormat(q, i) ==
    IF i > Len(q) THEN TRUE
    ELSE IF q[i] = "%"
    THEN i + 1 <= Len(q) /\ q[i + 1] \in {"%", "s"} /\ WellFormedFormat(q, i + 2)
    ELSE WellFormedFormat(q, i + 1)

\* C3: convert_query turns every format-style "%s" placeholder into "?" and
\* every escaped "%%" into the text "%" (so "%%s" comes out as the text "%s").
C3_FormatBecomesQmark ==
    (Returned("convert_query") /\ WellFormedFormat(call.query, 1))
    => result.query = FormatToQmark(call.query, 1)

\* C9: quote_value wraps a string, date, time or datetime in single quotes,
\* renders a boolean as 1 or 0, and any other number as its plain text.
C9_QuoteValue ==
    Returned("quote_value") =>
        LET v == call.value IN
        /\ v.cls \in {"str", "date", "time", "datetime"}
              => result.text = "'" \o v.text \o "'"
        /\ v.cls = "bool"
              => result.text = (IF v.text = "True" THEN "1" ELSE "0")
        /\ v.cls \in {"int", "float", "Decimal"} => result.text = v.text

C9_Witness ==
    /\ Returned("quote_value")
    /\ call.value = [cls |-> "bool", text |-> "False"]
    /\ result.text = "0"

----------------------------------------------------------------------------
(* Claims about execute, executemany and close (checked under Spec)        *)

\* the driver was called and raised one of its own errors
DriverRaised ==
    /\ call.op \in {"execute", "executemany"}
    /\ result.driver_calls # <<>>
    /\ driver.kind = "raise"
    /\ driver.exc.cls \in DatabaseErrorClasses

\* msg is four bracketed prefixes, each with or without a blank after it,
\* followed by code
FourPrefixesThen(msg, code) ==
    \E f \in [1..4 -> {<<"[", "x", "]">>, <<"[", "x", "]", " ">>}] :
        LET lead == f[1] \o f[2] \o f[3] \o f[4] \o <<code>> IN
        Len(msg) >= Len(lead) /\ SubSeq(msg, 1, Len(lead)) = lead

DriverRaisedCode(code) ==
    /\ DriverRaised
    /\ Len(driver.exc.args) = 2
    /\ driver.exc.args[1] = <<"HY000">>
    /\ FourPrefixesThen(driver.exc.args[2], code)

LeadingArgsAreDriverArgs ==
    /\ Len(result.exc.args) >= Len(driver.exc.args)
    /\ SubSeq(result.exc.args, 1, Len(driver.exc.args)) = driver.exc.args

\* C4: a driver error with SQLSTATE HY000 and an SQL0530 message reaches the
\* caller of execute and of executemany as django's IntegrityError whose
\* leading arguments are the driver error's arguments.
C4_ConstraintViolationIsIntegrityError ==
    DriverRaisedCode("SQL0530") =>
        /\ result.kind = "raise"
        /\ result.exc.cls = "django.IntegrityError"
        /\ LeadingArgsAreDriverArgs

C4_Witness ==
    /\ DriverRaisedCode("SQL0530")
    /\ call.op = "executemany"
    /\ result.exc.cls = "django.IntegrityError"

QueryStartsWithAlterTable(q) ==
    Len(q) >= 3 /\ q[1] = "ALTER" /\ q[2] = " " /\ q[3] = "TABLE"

QueryContainsRestartWith(q) ==
    \E i \in 1..(Len(q) - 2) : q[i] = "RESTART" /\ q[i + 1] = " " /\ q[i + 2] = "WITH"

\* C5: a driver error with SQLSTATE HY000 and an SQL0910 message becomes
\* django's ProgrammingError with the explanation exactly when the executed
\* query starts with ALTER TABLE and contains RESTART WITH; otherwise it is
\* raised again with its own class.
C5_FileInUseOnSequenceReset ==
    DriverRaisedCode("SQL0910") =>
        LET q == result.driver_calls[1].query IN
        /\ result.kind = "raise"
        /\ IF QueryStartsWithAlterTable(q) /\ QueryContainsRestartWith(q)
           THEN /\ result.exc.cls = "django.ProgrammingError"
                /\ result.exc.args[Len(result.exc.args)] = Explanation
           ELSE /\ result.exc.cls = driver.exc.cls
                /\ Explanation \notin {result.exc.args[i] : i \in 1..Len(result.exc.args)}

C5_Witness ==
    /\ DriverRaisedCode("SQL0910")
    /\ QueryStartsWithAlterTable(result.driver_calls[1].query)
    /\ QueryContainsRestartWith(result.driver_calls[1].query)
    /\ result.exc.cls = "django.ProgrammingError"

C5_WitnessOther ==
    /\ DriverRaisedCode("SQL0910")
    /\ QueryStartsWithAlterTable(result.driver_calls[1].query)
    /\ ~QueryContainsRestartWith(result.driver_calls[1].query)
    /\ result.exc.cls = "pyodbc.ProgrammingError"

\* C7: over any sequence of close() calls the driver cursor's close() is
\* invoked at most once, and no close() raises.
C7_CloseForwardedOnce ==
    /\ cursor.closes <= 1
    /\ call.op = "close" => result.kind = "return"

C7_Witness ==
    /\ call.op = "close"
    /\ cursor.closes = 1
    /\ result.kind = "return"
    /\ ~result.forwarded

\* C8: executemany with an empty parameter list calls the driver zero times
\* and returns None; with a non-empty list it calls the driver's executemany
\* exactly once, with the converted query and the list.
C8_ExecuteManyEmptyDoesNothing ==
    call.op = "executemany" =>
        IF call.param_list = <<>>
        THEN /\ result.driver_calls = <<>>
             /\ result.kind = "return"
             /\ result.value = "None"
        ELSE /\ Len(result.driver_calls) = 1
             /\ result.driver_calls[1].func = "executemany"
             /\ result.driver_calls[1].query = convert_query(call.query)
             /\ result.driver_calls[1].param_list = call.param_list

C8_Witness ==
    /\ call.op = "executemany"
    /\ call.param_list = <<>>
    /\ driver.kind = "raise"
    /\ result.kind = "return"
    /\ result.driver_calls = <<>>

----------------------------------------------------------------------------
(* Claims about the connection (checked under SpecConn)                    *)

NameIsNonEmptyString ==
    settings_dict["NAME"].cls = "str" /\ settings_dict["NAME"].text # ""

\* C10: get_connection_params raises ImproperlyConfigured and returns no
\* dictionary when NAME is empty or not a string; otherwise the dictionary has
\* 'database' = NAME, and 'user', 'password', 'host', 'port' exactly for the
\* settings that are strings.
C10_ConnectionParams ==
    call.op = "get_connection_params" =>
        IF NameIsNonEmptyString
        THEN /\ result.kind = "return"
             /\ result.kwargs["database"] = settings_dict["NAME"]
             /\ \A pair \in {<<"USER", "user">>, <<"PASSWORD", "password">>,
                              <<"HOST", "host">>, <<"PORT", "port">>} :
                   /\ pair[2] \in DOMAIN result.kwargs <=> settings_dict[pair[1]].cls = "str"
                   /\ pair[2] \in DOMAIN result.kwargs
                         => result.kwargs[pair[2]] = settings_dict[pair[1]]
        ELSE /\ result.kind = "raise"
             /\ result.exc.cls = "django.ImproperlyConfigured"
             /\ "kwargs" \notin DOMAIN result

C10_Witness ==
    /\ call.op = "get_connection_params"
    /\ result.kind = "return"
    /\ settings_dict["PORT"].cls = "int"
    /\ DOMAIN result.kwargs = {"database", "user", "password", "host", "options"}

C10_WitnessRaise ==
    /\ call.op = "get_connection_params"
    /\ settings_dict["NAME"] = [cls |-> "NoneType", text |-> "None"]
    /\ result.kind = "raise"

IsInterfaceError28000(outcome) ==
    /\ outcome.kind = "raise"
    /\ outcome.exc.cls = "pyodbc.InterfaceError"
    /\ Len(outcome.exc.args) >= 1
    /\ outcome.exc.args[1] = <<"28000">>

SchemaIsSet ==
    /\ "CURRENTSCHEMA" \in DOMAIN settings_dict
    /\ settings_dict["CURRENTSCHEMA"].cls = "str"
    /\ settings_dict["CURRENTSCHEMA"].text # ""

\* C6: connect turns a driver InterfaceError into django's DatabaseError with
\* the same arguments exactly when its SQLSTATE is 28000; any other driver
\* error propagates unchanged; a successful connect raises nothing.
C6_ConnectRemapsInterfaceError ==
    (call.op = "connect" /\ NameIsNonEmptyString) =>
        /\ (odbc.connect.kind = "raise" /\ Len(odbc.connect.exc.args) >= 1) =>
              /\ result.kind = "raise"
              /\ result.exc = IF IsInterfaceError28000(odbc.connect)
                              THEN [cls |-> "django.DatabaseError",
                                    args |-> odbc.connect.exc.args]
                              ELSE odbc.connect.exc
        /\ (odbc.connect.kind = "return" /\ (SchemaIsSet => driver.kind = "return")) =>
              /\ result.kind = "return"
              /\ connection = "connection"
        /\ (result.kind = "raise" /\ result.exc.cls = "django.DatabaseError") =>
              \/ IsInterfaceError28000(odbc.connect)
              \/ IsInterfaceError28000(driver)

C6_Witness ==
    /\ call.op = "connect"
    /\ IsInterfaceError28000(odbc.connect)
    /\ result.kind = "raise"
    /\ result.exc.cls = "django.DatabaseError"
    /\ connection = "None"

C6_WitnessOther ==
    /\ call.op = "connect"
    /\ odbc.connect.kind = "raise"
    /\ odbc.connect.exc = [cls |-> "pyodbc.InterfaceError", args |-> <<<<"IM002">>, <<"x">>>>]
    /\ result.kind = "raise"
    /\ result.exc = odbc.connect.exc

----------------------------------------------------------------------------
(* Claims about the operations (checked under SpecCatalog)                 *)

\* a name as the statements write it: upper-cased, in double quotes
Quoted(name) == <<QUOTE>> \o [k \in 1..Len(name) |-> Upper(name[k])] \o <<QUOTE>>

\* ALTER TABLE "<table>" <verb> CONSTRAINT "<name>" ...
IsConstraintSql(s, verb) ==
    /\ Len(s) >= 15
    /\ SubSeq(s, 1, 4) = <<"ALTER", " ", "TABLE", " ">>
    /\ SubSeq(s, 8, 12) = <<" ", verb, " ", "CONSTRAINT", " ">>

\* the constraint such a statement names: its table and its name
ConstraintNamed(s) == <<SubSeq(s, 5, 7), SubSeq(s, 13, 15)>>

IsDeleteOf(s, table) ==
    /\ Len(s) >= 7
    /\ SubSeq(s, 1, 4) = <<"DELETE", " ", "FROM", " ">>
    /\ SubSeq(s, 5, 7) = Quoted(table)

IsRestartOf(s, sequence) ==
    /\ Len(s) >= 7
    /\ SubSeq(s, 1, 4) = <<"ALTER", " ", "TABLE", " ">>
    /\ SubSeq(s, 5, 7) = Quoted(sequence.table)
    /\ SubSeq(s, Len(s) - 4, Len(s)) = <<"RESTART", " ", "WITH", " ", "1">>

\* the foreign keys of the catalog that reference a table of the list
ReferencingKeys(tables) ==
    UNION {{<<Quoted(catalog.foreign_keys[t][k][1]), Quoted(catalog.foreign_keys[t][k][2])>> :
               k \in 1..Len(catalog.foreign_keys[t])} :
           t \in {t \in DOMAIN catalog.foreign_keys :
                     \E i \in 1..Len(tables) : Quoted(tables[i]) = Quoted(t)}}

\* the positions of the sequences that have a column, in order
RECURSIVE ColumnPositions(_, _)
ColumnPositions(sequences, i) ==
    IF i > Len(sequences) THEN <<>>
    ELSE (IF sequences[i].column.cls = "NoneType" THEN <<>> ELSE <<i>>)
         \o ColumnPositions(sequences, i + 1)

\* C11: for a non-empty table list sql_flush returns, in this order, one DROP
\* CONSTRAINT per foreign key referencing a flushed table, COMMIT, one DELETE
\* per table in list order, COMMIT, one RESTART WITH 1 per sequence that has a
\* column, and one ADD CONSTRAINT per foreign key dropped; every foreign key is
\* dropped exactly once and re-added exactly once.
C11_FlushOrder ==
    (call.op = "sql_flush" /\ call.tables # <<>>) =>
        LET sqls == result.sqls
            keys == ReferencingKeys(call.tables)
            n == Cardinality(keys)
            d == Len(call.tables)
            cols == ColumnPositions(call.sequences, 1)
            r == Len(cols)
        IN /\ Len(sqls) = n + 1 + d + 1 + r + n
           /\ \A k \in 1..n : IsConstraintSql(sqls[k], "DROP")
           /\ {ConstraintNamed(sqls[k]) : k \in 1..n} = keys
           /\ sqls[n + 1] = <<"COMMIT">>
           /\ \A k \in 1..d : IsDeleteOf(sqls[n + 1 + k], call.tables[k])
           /\ sqls[n + d + 2] = <<"COMMIT">>
           /\ \A k \in 1..r : IsRestartOf(sqls[n + d + 2 + k], call.sequences[cols[k]])
           /\ \A k \in 1..n : IsConstraintSql(sqls[n + d + 2 + r + k], "ADD")
           /\ {ConstraintNamed(sqls[n + d + 2 + r + k]) : k \in 1..n} = keys

IsAutoField(field) == field.cls \in {"AutoField", "BigAutoField"}

\* the largest identity value of a model's table, 0 when it has no rows
CurrentMax(model) ==
    LET ids == catalog.ids[<<Quoted(model.db_table)[2]>>] IN
    IF ids = {} THEN 0 ELSE CHOOSE x \in ids : \A y \in ids : y <= x

\* the statements of sqls that restart a sequence of the table
RestartsOf(sqls, table) ==
    {k \in 1..Len(sqls) :
        /\ SubSeq(sqls[k], 1, 7) = <<"ALTER", " ", "TABLE", " ">> \o Quoted(table)
        /\ SubSeq(sqls[k], 8, 12) = <<" ", "ALTER", " ", "COLUMN", " ">>
        /\ SubSeq(sqls[k], 16, 19) = <<" ", "RESTART", " ", "WITH">>}

\* C12: sequence_reset_sql emits for each model with an AutoField exactly one
\* ALTER TABLE <table> ALTER COLUMN <column> RESTART WITH n, for the first such
\* field, n being the column's MAX plus 1 and 1 for a table without rows; a
\* model without an AutoField gets no such statement.
C12_SequenceResetPerAutoField ==
    call.op = "sequence_reset_sql" =>
        \A i \in 1..Len(call.model_list) :
            LET model == call.model_list[i]
                autos == {k \in 1..Len(model.local_fields) : IsAutoField(model.local_fields[k])}
                found == RestartsOf(result.sqls, model.db_table)
            IN IF autos = {}
               THEN found = {}
               ELSE LET first == CHOOSE k \in autos : \A j \in autos : k <= j IN
                    /\ Cardinality(found) = 1
                    /\ \A k \in found :
                          /\ SubSeq(result.sqls[k], 13, 15) = Quoted(model.local_fields[first].column)
                          /\ result.sqls[k][21] = ToString(CurrentMax(model) + 1)

C12_Witness ==
    /\ call.op = "sequence_reset_sql"
    /\ Len(call.model_list) = 2
    /\ call.model_list[1].db_table = <<"t3">>
    /\ call.model_list[2].many_to_many # <<>>
    /\ catalog.ids[<<"T3">>] = {MaxId}
    /\ Len(result.sqls) = 2
    /\ result.sqls[1][21] = ToString(MaxId + 1)

----------------------------------------------------------------------------
(* Claims about DatabaseWrapper.close (checked under SpecConn)             *)

\* the last call was a close() that called the driver's close()
CloseReachedDriver == call.op = "close" /\ result.driver_calls # <<>>

DriverRefusedClosedHandle ==
    /\ handle.last.kind = "raise"
    /\ handle.last.exc = [cls |-> "pyodbc.ProgrammingError",
                          args |-> <<<<"Attempt to use a closed connection.">>>>]

DriverRaisedOtherError ==
    /\ handle.last.kind = "raise"
    /\ handle.last.exc.cls = "pyodbc.ProgrammingError"
    /\ handle.last.exc.args # <<<<"Attempt to use a closed connection.">>>>

\* what C13 says of one close(): the handle is cleared when it returns, the
\* closed-connection error is swallowed, another ProgrammingError propagates
\* and leaves the handle
CloseOutcome ==
    /\ (call.op = "close" /\ result.kind = "return") => connection = "None"
    /\ (CloseReachedDriver /\ DriverRefusedClosedHandle)
          => (result.kind = "return" /\ connection = "None")
    /\ (CloseReachedDriver /\ DriverRaisedOtherError)
          => /\ result.kind = "raise"
             /\ result.exc = handle.last.exc
             /\ connection = "connection"

\* a close() made while self.connection is None does not reach the driver
CloseWithoutConnection ==
    (connection = "None" /\ call'.op = "close") => handle' = handle

\* C13 (as claimed): after close() returns self.connection is None; close()
\* with no connection makes no driver call; the driver's close is called at
\* most once per opened handle over any sequence of close() calls; the
\* closed-connection ProgrammingError is swallowed and the handle cleared, any
\* other ProgrammingError propagates and leaves self.connection unchanged.
C13_CloseOncePerHandle ==
    /\ [](CloseOutcome /\ handle.closes <= 1)
    /\ [][CloseWithoutConnection]_vars

\* C13 (amended): as claimed, except that the driver's close is called again
\* on the same handle after a close() that raised: the calls made on a handle
\* are at most one more than the close() calls that raised.
C13_CloseOncePerHandleUnlessRaised ==
    /\ [](CloseOutcome /\ handle.closes <= handle.failed + 1)
    /\ [][CloseWithoutConnection]_vars

C13_Witness ==
    /\ call.op = "close"
    /\ result.kind = "return"
    /\ result.driver_calls # <<>>
    /\ connection = "None"
    /\ handle.closes = 2
    /\ handle.failed = 1
    /\ DriverRefusedClosedHandle

----------------------------------------------------------------------------
(* Claims about the introspection (checked under SpecCatalog)              *)

\* the catalog's entry of the table a call names
DescribedTable == catalog.tables[[k \in 1..Len(call.table_name) |-> Upper(call.table_name[k])]]

\* the column rows of the table the description is about: those of the base
\* table for an alias, those of the table in the current schema otherwise
DescribedColumns ==
    LET key == IF DescribedTable.type = "A"
               THEN <<DescribedTable.base.schema, DescribedTable.base.name>>
               ELSE <<<<"LIB">>, [k \in 1..Len(call.table_name) |-> Upper(call.table_name[k])]>>
    IN catalog.columns[key]

\* C14: get_table_description returns an empty list for a table of type X and
\* reads no column for it; for an alias it describes the columns of the base
\* table; otherwise it returns one FieldInfo per column row of the table, in
\* ordinal-position order, the column name in lower case.
C14_TableDescription ==
    (/\ call.op = "get_table_description"
     /\ [k \in 1..Len(call.table_name) |-> Upper(call.table_name[k])] \in DOMAIN catalog.tables)
    => /\ result.kind = "return"
       /\ IF DescribedTable.type = "X"
          THEN /\ result.description = <<>>
               /\ \A k \in 1..Len(result.statements) : result.statements[k] # "SYSCOLUMNS"
          ELSE /\ Len(result.description) = Cardinality(DescribedColumns)
               /\ \A row \in DescribedColumns :
                     LET k == Cardinality({o \in DescribedColumns :
                                              o.ORDINAL_POSITION <= row.ORDINAL_POSITION})
                     IN /\ result.description[k].name
                              = [j \in 1..Len(row.COLUMN_NAME) |-> Lower(row.COLUMN_NAME[j])]
                        /\ result.description[k].type_code = row.DATA_TYPE
                        /\ result.description[k].null_ok = row.IS_NULLABLE

C14_Witness ==
    /\ call.op = "get_table_description"
    /\ call.table_name = <<"t3">>
    /\ DescribedTable.base.schema = <<"OTHER">>
    /\ Len(result.description) = 3
    /\ result.description[1].name = <<"c2">>
    /\ result.description[3].name = <<"c1">>

C14_WitnessTypeX ==
    /\ call.op = "get_table_description"
    /\ call.table_name = <<"t2">>
    /\ catalog.columns[<<<<"LIB">>, <<"T2">>>>] # {}
    /\ result.description = <<>>

----------------------------------------------------------------------------
(* Further claims about the placeholder rewrite (checked under SpecPure)   *)

\* C15: the query the rewrite returns is the input query text in which only
\* the select-clause placeholders are replaced by their literals; every other
\* symbol of the input is reproduced at its place.
C15_RewriteKeepsOtherText ==
    Returned("_replace_placeholders_in_select_clause") =>
        /\ Len(result.query) = Len(call.query)
        /\ \A i \in 1..Len(call.query) :
              IF call.query[i] = "?" /\ InSelectClause(call.query, i)
              THEN result.query[i] # "?"
              ELSE result.query[i] = call.query[i]


\* C16: for a statement with as many placeholders as parameters the rewrite
\* returns (it does not raise), and the returned query has as many '?' as the
\* returned parameter list has elements.
C16_RewriteNeverRaises ==
    (/\ call.op = "_replace_placeholders_in_select_clause"
     /\ result # NoResult
     /\ call.query # <<>>
     /\ Len(call.params) = Cardinality(PlaceholderPositions(call.query)))
    => /\ result.kind = "return"
       /\ Cardinality({i \in 1..Len(result.query) : result.query[i] = "?"})
             = Len(result.params)


\* the number of parentheses open at position i
Depth(q, i) ==
    Cardinality({k \in 1..(i - 1) : q[k] = "("}) - Cardinality({k \in 1..(i - 1) : q[k] = ")"})

\* position i stands in the select list opened by a SELECT keyword: at the
\* depth of that keyword, before the FROM keyword of the same depth that ends
\* the list, whatever stands in parentheses in between
InSelectList(q, i) ==
    \E j \in 1..(i - 1) :
        /\ q[j] \in {"select", "SELECT"}
        /\ Depth(q, j) = Depth(q, i)
        /\ \A k \in (j + 1)..(i - 1) :
              /\ Depth(q, k) >= Depth(q, j)
              /\ q[k] \in {"from", "FROM"} => Depth(q, k) > Depth(q, j)

\* C17: a placeholder of a select list is replaced by a literal wherever it
\* stands in the list, also after a parenthesised subquery or a function
\* argument that contains the keyword FROM.
C17_SelectListAcrossParentheses ==
    Returned("_replace_placeholders_in_select_clause") =>
        \A i \in PlaceholderPositions(call.query) :
            InSelectList(call.query, i) => result.query[i] # "?"

----------------------------------------------------------------------------
(* Further claims about execute and executemany (checked under Spec)       *)

\* C18: execute with an empty parameter sequence hands the caller's query to
\* the driver as it is; with a non-empty one it applies convert_query, then
\* the select-clause rewrite, and calls the driver exactly once with the
\* query and the parameters that result.
C18_ExecutePipeline ==
    call.op = "execute" =>
        /\ Len(result.driver_calls) = 1
        /\ result.driver_calls[1].func = "execute"
        /\ IF call.params = <<>>
           THEN /\ result.driver_calls[1].query = call.query
                /\ result.driver_calls[1].params = <<>>
           ELSE LET rewritten == _replace_placeholders_in_select_clause(
                                     call.params, convert_query(call.query))
                IN /\ rewritten.kind = "return"
                   /\ result.driver_calls[1].query = rewritten.query
                   /\ result.driver_calls[1].params = rewritten.params


\* the driver error has the arguments pyodbc gives its errors: a message, or
\* an SQLSTATE and a message
HasDriverArgs ==
    /\ Len(driver.exc.args) >= 1
    /\ driver.exc.args[1] = <<"HY000">> => Len(driver.exc.args) >= 2

\* the driver error falls under one of the two remap rules of _wrap_execute
MatchesRemapRule ==
    /\ driver.exc.args[1] = <<"HY000">>
    /\ \/ SQLCODE_0530_REGEX(driver.exc.args[2])
       \/ /\ SQLCODE_0910_REGEX(driver.exc.args[2])
          /\ QueryStartsWithAlterTable(result.driver_calls[1].query)
          /\ QueryContainsRestartWith(result.driver_calls[1].query)

\* C19: a driver error that matches neither remap rule reaches the caller of
\* execute and of executemany as an exception of the driver error's class
\* whose leading arguments are the driver error's arguments in their order;
\* and a call that reached the driver returns only when the driver raised
\* nothing.
C19_OtherDriverErrorsKeepClass ==
    /\ (DriverRaised /\ HasDriverArgs /\ ~MatchesRemapRule) =>
          /\ result.kind = "raise"
          /\ result.exc.cls = driver.exc.cls
          /\ LeadingArgsAreDriverArgs
    /\ (/\ call.op \in {"execute", "executemany"}
        /\ result.driver_calls # <<>>
        /\ result.kind = "return") => driver.kind = "return"

C19_Witness ==
    /\ DriverRaised
    /\ call.op = "execute"
    /\ driver.exc.cls = "pyodbc.ProgrammingError"
    /\ Len(driver.exc.args) = 2
    /\ driver.exc.args[1] = <<"HY000">>
    /\ FourPrefixesThen(driver.exc.args[2], "SQL0910")
    /\ ~QueryContainsRestartWith(result.driver_calls[1].query)
    /\ result.kind = "raise"
    /\ result.exc.cls = "pyodbc.ProgrammingError"
    /\ Len(result.exc.args) = 4

C19_WitnessMessageOnly ==
    /\ DriverRaised
    /\ call.op = "executemany"
    /\ driver.exc.args = <<<<"Attempt to use a closed cursor.">>>>
    /\ result.kind = "raise"
    /\ result.exc.cls = driver.exc.cls

----------------------------------------------------------------------------
(* Claims about the connection string (checked under SpecConn)             *)

\* the string handed to Database.connect by the last connect()
ConnectionString == result.connect_calls[1].dsn

\* the string has the keyword followed by the value
Names(text, keyword, value) ==
    \E i \in 1..(Len(text) - 1) : text[i] = keyword /\ text[i + 1] = value

Mentions(text, sym) == \E i \in 1..Len(text) : text[i] = sym

IsStringSetting(K) == settings_dict[K].cls = "str"

C20_WitnessDsnName ==
    /\ call.op = "connect"
    /\ result.connect_calls # <<>>
    /\ IsStringSetting("HOST")
    /\ ~IsStringSetting("PORT")
    /\ ConnectionString[1] = "iseries"
    /\ "host" \in DOMAIN result.connect_calls[1].kwargs

----------------------------------------------------------------------------
(* Claims about the options appended to the connection string (SpecConn)   *)

OptionKeys ==
    {"security=", "SSLCLIENTKEYSTOREDB=", "SSLCLIENTKEYSTOREDBPASSWORD=",
     "SSLCLIENTKEYSTASH=", "SSLSERVERCERTIFICATE="}

\* text.split(';'): the segments between the semicolons, from position i on,
\* seg being the segment read so far
RECURSIVE Split(_, _, _)
Split(text, i, seg) ==
    IF i > Len(text) THEN <<seg>>
    ELSE IF text[i] = ";" THEN <<seg>> \o Split(text, i + 1, <<>>)
    ELSE Split(text, i + 1, Append(seg, text[i]))

\* an option's key stands inside the segment, after other text
RunsIntoOptionKey(seg) == \E i \in 2..Len(seg) : seg[i] \in OptionKeys

AppendedOptions(text) == {i \in 1..Len(text) : text[i] \in OptionKeys}

\* C21: every option appended to the connection string is a segment of its
\* own: no segment between two semicolons of the string handed to
\* Database.connect has an option's key after other text (the password or the
\* database name), in the host/port form and in the DSN-name form alike.
C21_OptionsAreOwnSegments ==
    (call.op = "connect" /\ result.connect_calls # <<>>) =>
        LET segments == Split(ConnectionString, 1, <<>>) IN
        \A n \in 1..Len(segments) : ~RunsIntoOptionKey(segments[n])

\* what does hold: every appended option is closed by a semicolon, so only
\* the first one appended runs into the text before it
C21_LaterOptionsAreOwnSegments ==
    (call.op = "connect" /\ result.connect_calls # <<>>) =>
        \A i \in AppendedOptions(ConnectionString) :
           /\ i + 2 <= Len(ConnectionString)
           /\ ConnectionString[i + 2] = ";"
           /\ (i > 1 /\ ConnectionString[i - 1] # ";") =>
                 \A j \in AppendedOptions(ConnectionString) : i <= j

----------------------------------------------------------------------------
(* Claims about the current schema of a new connection (SpecConn)          *)

SetSchemaStatement ==
    <<"SET", " ", "CURRENT_SCHEMA", " ", "=", " ", settings_dict["CURRENTSCHEMA"].text>>

\* C22: with a non-empty currentschema, get_new_connection opens the
\* connection, then executes SET CURRENT_SCHEMA = <schema> on a cursor of it,
\* and returns the connection only after that statement succeeded: when the
\* statement raises, the call raises and the wrapper holds no connection.
\* With currentschema absent or empty nothing is executed on the connection.
C22_SchemaSetBeforeReturn ==
    /\ (call.op = "connect" /\ odbc.connect.kind = "return" /\ NameIsNonEmptyString) =>
          IF SchemaIsSet
          THEN /\ result.calls = <<"connect", "cursor", "execute">>
               /\ result.statements = <<SetSchemaStatement>>
               /\ result.kind = "return" <=> driver.kind = "return"
               /\ result.kind = "raise" => connection = "None"
          ELSE /\ result.calls = <<"connect">>
               /\ result.statements = <<>>
               /\ result.kind = "return"
    /\ (call.op = "connect" /\ odbc.connect.kind = "raise" /\ NameIsNonEmptyString) =>
          /\ result.statements = <<>>
          /\ result.kind = "raise"
    /\ (connection # "None" /\ SchemaIsSet) => driver.kind = "return"

C22_Witness ==
    /\ call.op = "connect"
    /\ SchemaIsSet
    /\ result.kind = "return"
    /\ connection = "connection"
    /\ result.calls = <<"connect", "cursor", "execute">>
    /\ result.statements = <<<<"SET", " ", "CURRENT_SCHEMA", " ", "=", " ", "lib">>>>

C22_WitnessEmpty ==
    /\ call.op = "connect"
    /\ "CURRENTSCHEMA" \in DOMAIN settings_dict
    /\ settings_dict["CURRENTSCHEMA"].text = ""
    /\ result.kind = "return"
    /\ result.statements = <<>>

C22_WitnessRaise ==
    /\ call.op = "connect"
    /\ SchemaIsSet
    /\ odbc.connect.kind = "return"
    /\ driver.kind = "raise"
    /\ result.kind = "raise"
    /\ result.statements # <<>>
    /\ connection = "None"

----------------------------------------------------------------------------
(* Claims about get_constraints (checked under SpecCatalog)                *)

Lowered(text) == [k \in 1..Len(text) |-> Lower(text[k])]

\* the table whose constraints are read: the base table of an alias
ConstraintTable ==
    IF DescribedTable.type = "A" THEN DescribedTable.base.name
    ELSE [k \in 1..Len(call.table_name) |-> Upper(call.table_name[k])]

CatalogConstraints ==
    IF ConstraintTable \in DOMAIN catalog.constraints
    THEN catalog.constraints[ConstraintTable] ELSE <<>>

CatalogIndexes ==
    IF ConstraintTable \in DOMAIN catalog.indexes
    THEN catalog.indexes[ConstraintTable] ELSE <<>>

\* the lower-cased columns of the constraint of that lower-cased name, in
\* catalog order
ConstraintColumns(name) ==
    LET rows == SelectSeq(CatalogConstraints,
                          LAMBDA row : Lowered(row.CONSTRAINT_NAME) = name)
    IN [k \in 1..Len(rows) |-> Lowered(rows[k].COLUMN_NAME)]

IndexColumns(name) ==
    LET rows == SelectSeq(CatalogIndexes, LAMBDA row : Lowered(row.INDEX_NAME) = name)
    IN [k \in 1..Len(rows) |-> Lowered(rows[k].COLUMN_NAME)]

ConstraintType(name) ==
    LET rows == SelectSeq(CatalogConstraints,
                          LAMBDA row : Lowered(row.CONSTRAINT_NAME) = name)
    IN rows[1].CONSTRAINT_TYPE

IndexIsUnique(name) ==
    LET rows == SelectSeq(CatalogIndexes, LAMBDA row : Lowered(row.INDEX_NAME) = name)
    IN rows[1].IS_UNIQUE # "D"

CatalogNames ==
    {Lowered(CatalogConstraints[k].CONSTRAINT_NAME) : k \in 1..Len(CatalogConstraints)}
    \cup {Lowered(CatalogIndexes[k].INDEX_NAME) : k \in 1..Len(CatalogIndexes)}

ConstraintFlags(entry, name) ==
    /\ entry.primary_key = (IF ConstraintType(name) = "PRIMARY KEY" THEN "1" ELSE "0")
    /\ entry.unique = (IF ConstraintType(name) = "UNIQUE" THEN "1" ELSE "0")
    /\ entry.foreign_key = (IF ConstraintType(name) = "FOREIGN KEY" THEN "1" ELSE "0")
    /\ entry.check = (IF ConstraintType(name) = "CHECK" THEN "1" ELSE "0")
    /\ entry.index = "False"

IndexFlags(entry, name) ==
    /\ entry.primary_key = "False"
    /\ entry.unique = (IF IndexIsUnique(name) THEN "1" ELSE "0")
    /\ entry.foreign_key = "None"
    /\ entry.check = "False"
    /\ entry.index = "True"

\* C23: the dictionary get_constraints returns has one entry per lower-cased
\* constraint or index name, and the 'columns' of an entry are the columns of
\* that constraint, each once, in catalog order: for a name recorded from the
\* constraint catalog, an index of the same name adds no column and changes
\* no flag.
C23_ConstraintColumnsOnce ==
    (call.op = "get_constraints" /\ result.kind = "return") =>
        /\ DOMAIN result.constraints = CatalogNames
        /\ \A name \in DOMAIN result.constraints :
              LET entry == result.constraints[name] IN
              /\ \A i, j \in 1..Len(entry.columns) :
                    i # j => entry.columns[i] # entry.columns[j]
              /\ IF ConstraintColumns(name) # <<>>
                 THEN entry.columns = ConstraintColumns(name) /\ ConstraintFlags(entry, name)
                 ELSE entry.columns = IndexColumns(name) /\ IndexFlags(entry, name)

\* what does hold: the entry of a name keeps the flags of the first catalog
\* that names it, and its columns are the constraint's columns followed by
\* the columns of the index of the same name
C23_IndexColumnsAppended ==
    (call.op = "get_constraints" /\ result.kind = "return") =>
        /\ DOMAIN result.constraints = CatalogNames
        /\ \A name \in DOMAIN result.constraints :
              LET entry == result.constraints[name] IN
              /\ entry.columns = ConstraintColumns(name) \o IndexColumns(name)
              /\ IF ConstraintColumns(name) # <<>>
                 THEN ConstraintFlags(entry, name)
                 ELSE IndexFlags(entry, name)

====
